---- MODULE Spec2Model ----
(***************************************************************************)
(* Forward-search core of Nominatim: the token assignment enumerator       *)
(* (search/token_assignment.py), the penalties the ICU query analyzer      *)
(* gives to tokens (search/icu_tokenizer.py) and the database searches     *)
(* (search/db_searches.py).                                                *)
(*                                                                         *)
(* Penalties are floats in the source.  They are counted here in           *)
(* hundredths: 0.1 is 10, 0.25 is 25, 1.0 is 100.                          *)
(***************************************************************************)
EXTENDS Integers, Sequences, FiniteSets, TLC

VARIABLES
    query,      \* the QueryStruct that yield_token_assignments reads
    todo,       \* the work stack of yield_token_assignments
    last,       \* the state popped last and what became of its successors
    nyielded,   \* number of assignments yielded so far
    tok,        \* the query analyzer: its input and the query it has built
    srch,       \* the search that is run: its input and what lookup returned
    setup,      \* the analyzers being set up, the configuration and the cache
    pre,        \* the regex-replace preprocessor: its input and its result
    norm,       \* normalize_text: its input, the normalizer and its results
    imp         \* SetupAll.async_run: its arguments and the stages executed

vars == <<query, todo, last, nyielded, tok, srch, setup, pre, norm, imp>>

(***************************************************************************)
(* Bounds of the model.                                                    *)
(***************************************************************************)
\* Largest number of token slots of a query with a full token graph.
MaxSlots == 4
\* Magnitude of query.dir_penalty that is tried (in hundredths).
DirPen == 20
\* How far beyond the address token limit the longest query reaches.
LongExtra == 10
\* Largest number of slots of the queries of single-slot phrases.
RecheckSlots == 6

(***************************************************************************)
(* Program constants (hundredths).                                         *)
(***************************************************************************)
MaxAddrTokens == 50
PenaltyPriors == 80
PenaltyNearHnr == 100
PenaltyPostcode == 10
PenaltySplit == 25
PenaltySplitHnrBackward == 40

(***************************************************************************)
(* Token types, break types and phrase types (query.py).                   *)
(***************************************************************************)
TOKEN_WORD == "WORD"
TOKEN_PARTIAL == "PARTIAL"
TOKEN_HOUSENUMBER == "HOUSENUMBER"
TOKEN_POSTCODE == "POSTCODE"
TOKEN_COUNTRY == "COUNTRY"
TOKEN_NEAR_ITEM == "NEAR_ITEM"
TOKEN_QUALIFIER == "QUALIFIER"

BREAK_START == "START"
BREAK_END == "END"
BREAK_PHRASE == "PHRASE"
BREAK_SOFT_PHRASE == "SOFT_PHRASE"
BREAK_WORD == "WORD"
BREAK_PART == "PART"
BREAK_TOKEN == "TOKEN"

PHRASE_ANY == "ANY"
PHRASE_STREET == "STREET"

\* The token types a token list of node.starting may have.
ListTypes ==
    <<TOKEN_WORD, TOKEN_HOUSENUMBER, TOKEN_POSTCODE, TOKEN_COUNTRY,
      TOKEN_NEAR_ITEM, TOKEN_QUALIFIER>>

\* The types that TokenAssignment keeps in a single optional field.
SingleTypes ==
    {TOKEN_HOUSENUMBER, TOKEN_POSTCODE, TOKEN_COUNTRY, TOKEN_NEAR_ITEM,
     TOKEN_QUALIFIER}

(***************************************************************************)
(* TokenRange: half-open [start, end).  NoRange stands for None.           *)
(***************************************************************************)
TokenRange(s, e) == [start |-> s, end |-> e]

NoRange == [start |-> -1, end |-> -1]

Has(r) == r # NoRange

\* TokenRange.__lt__ and __gt__
RangeLt(a, b) == a.end <= b.start

RangeGt(a, b) == a.start >= b.end

\* TokenRange.replace_end
ReplaceEnd(r, e) == TokenRange(r.start, e)

\* TokenRange.split: (replace_end(index), replace_start(index))
SplitRange(r, i) == <<TokenRange(r.start, i), TokenRange(i, r.end)>>

TypedRange(t, r) == [ttype |-> t, trange |-> r]

\* Break penalty table; the word_break_penalty of a node is derived from
\* the break at the node.
PENALTY_IN_TOKEN_BREAK(btype) ==
    CASE btype = BREAK_START -> 50
      [] btype = BREAK_END -> 50
      [] btype = BREAK_PHRASE -> 50
      [] btype = BREAK_SOFT_PHRASE -> 50
      [] btype = BREAK_WORD -> 10
      [] btype = BREAK_PART -> 0
      [] btype = BREAK_TOKEN -> 0

word_break_penalty(q, i) == PENALTY_IN_TOKEN_BREAK(q.btype[i])

num_token_slots(q) == q.n

(***************************************************************************)
(* _TokenSequence                                                          *)
(***************************************************************************)
TokenSequence(seq, direction, penalty) ==
    [seq |-> seq, direction |-> direction, penalty |-> penalty]

\* Optional values: None and Some(x).
None == <<>>

Some(x) == <<x>>

end_pos(s) == IF s.seq # <<>> THEN s.seq[Len(s.seq)].trange.end ELSE 0

has_types(s, ttypes) == \E i \in DOMAIN s.seq : s.seq[i].ttype \in ttypes

\* is_final with the length test off by one.
is_final_len2(s) ==
    /\ Len(s.seq) > 2
    /\ s.seq[Len(s.seq)].ttype \in {TOKEN_COUNTRY, TOKEN_NEAR_ITEM}

is_final(s) ==
    /\ Len(s.seq) > 1
    /\ s.seq[Len(s.seq)].ttype \in {TOKEN_COUNTRY, TOKEN_NEAR_ITEM}

\* appendable for HOUSENUMBER refusing a second segment in front.
appendable_housenumber_after_one(s) ==
    IF s.direction = 1
    THEN IF Len(s.seq) = 1 /\ s.seq[1].ttype = TOKEN_QUALIFIER
         THEN None
         ELSE IF Len(s.seq) > 1 \/ has_types(s, {TOKEN_POSTCODE, TOKEN_COUNTRY})
              THEN None
              ELSE Some(s.direction)
    ELSE IF s.direction = -1 \/ has_types(s, {TOKEN_POSTCODE, TOKEN_COUNTRY})
         THEN Some(-1)
         ELSE Some(s.direction)

\* appendable for HOUSENUMBER forcing right-to-left after any other term.
appendable_housenumber_forces_backward(s) ==
    IF s.direction = 1
    THEN IF Len(s.seq) = 1 /\ s.seq[1].ttype = TOKEN_QUALIFIER
         THEN None
         ELSE IF Len(s.seq) > 2 \/ has_types(s, {TOKEN_POSTCODE, TOKEN_COUNTRY})
         THEN None
         ELSE Some(s.direction)
    ELSE Some(-1)

appendable_housenumber(s) ==
    IF s.direction = 1
    THEN IF Len(s.seq) = 1 /\ s.seq[1].ttype = TOKEN_QUALIFIER
         THEN None
         ELSE IF Len(s.seq) > 2 \/ has_types(s, {TOKEN_POSTCODE, TOKEN_COUNTRY})
              THEN None
              ELSE Some(s.direction)
    ELSE IF s.direction = -1 \/ has_types(s, {TOKEN_POSTCODE, TOKEN_COUNTRY})
         THEN Some(-1)
         ELSE Some(s.direction)

appendable_postcode(s) ==
    IF s.direction = -1
    THEN IF has_types(s, {TOKEN_HOUSENUMBER, TOKEN_QUALIFIER})
         THEN None
         ELSE Some(-1)
    ELSE IF s.direction = 1
         THEN IF has_types(s, {TOKEN_COUNTRY}) THEN None ELSE Some(1)
         ELSE IF has_types(s, {TOKEN_HOUSENUMBER, TOKEN_QUALIFIER})
              THEN Some(1)
              ELSE Some(s.direction)

\* appendable for QUALIFIER counting a leading NEAR_ITEM as a segment.
appendable_qualifier_counts_near_item(s) ==
    IF s.direction = 1
    THEN IF \/ /\ Len(s.seq) = 1
               /\ s.seq[1].ttype \in {TOKEN_PARTIAL, TOKEN_NEAR_ITEM}
            \/ /\ Len(s.seq) = 2
               /\ s.seq[1].ttype = TOKEN_NEAR_ITEM
               /\ s.seq[2].ttype = TOKEN_PARTIAL
         THEN Some(1)
         ELSE None
    ELSE IF s.direction = -1
         THEN Some(-1)
         ELSE IF Len(s.seq) = 1 /\ s.seq[1].ttype = TOKEN_HOUSENUMBER
              THEN None
              ELSE IF \/ Len(s.seq) > 1
                      \/ has_types(s, {TOKEN_POSTCODE, TOKEN_COUNTRY})
                   THEN Some(-1)
                   ELSE Some(0)

appendable_qualifier(s) ==
    IF s.direction = 1
    THEN IF \/ /\ Len(s.seq) = 1
               /\ s.seq[1].ttype \in {TOKEN_PARTIAL, TOKEN_NEAR_ITEM}
            \/ /\ Len(s.seq) = 2
               /\ s.seq[1].ttype = TOKEN_NEAR_ITEM
               /\ s.seq[2].ttype = TOKEN_PARTIAL
         THEN Some(1)
         ELSE None
    ELSE IF s.direction = -1
         THEN Some(-1)
         ELSE LET tempseq == IF s.seq[1].ttype = TOKEN_NEAR_ITEM
                             THEN Tail(s.seq) ELSE s.seq
              IN  IF Len(tempseq) = 0
                  THEN Some(1)
                  ELSE IF Len(tempseq) = 1 /\ s.seq[1].ttype = TOKEN_HOUSENUMBER
                       THEN None
                       ELSE IF \/ Len(tempseq) > 1
                               \/ has_types(s, {TOKEN_POSTCODE, TOKEN_COUNTRY})
                            THEN Some(-1)
                            ELSE Some(0)

\* appendable without the test that a type appears once.
appears_once_unchecked(s, ttype) == FALSE

\* "Other tokens may only appear once"
appears_once_check(s, ttype) == has_types(s, {ttype})

\* appendable on the empty sequence refusing a country in a typed phrase.
appendable_empty_typed_rejects_country(s, ttype) ==
    IF ttype = TOKEN_COUNTRY
    THEN IF s.direction = 1 THEN None ELSE Some(-1)
    ELSE IF ttype \in {TOKEN_HOUSENUMBER, TOKEN_QUALIFIER}
         THEN Some(1)
         ELSE Some(s.direction)

\* "Append unconditionally to the empty list"
appendable_empty(s, ttype) ==
    IF ttype = TOKEN_COUNTRY
    THEN Some(-1)
    ELSE IF ttype \in {TOKEN_HOUSENUMBER, TOKEN_QUALIFIER}
         THEN Some(1)
         ELSE Some(s.direction)

appendable(s, ttype) ==
    IF ttype = TOKEN_WORD
    THEN None
    ELSE IF s.seq = <<>>
    THEN appendable_empty(s, ttype)
    ELSE IF ttype = TOKEN_PARTIAL
    THEN IF /\ s.direction = -1
            /\ \E i \in 1..(Len(s.seq) - 1) : s.seq[i].ttype = TOKEN_QUALIFIER
         THEN None
         ELSE Some(s.direction)
    ELSE IF appears_once_check(s, ttype)
    THEN None
    ELSE IF ttype = TOKEN_HOUSENUMBER
    THEN appendable_housenumber(s)
    ELSE IF ttype = TOKEN_POSTCODE
    THEN appendable_postcode(s)
    ELSE IF ttype = TOKEN_COUNTRY
    THEN IF s.direction = -1 THEN None ELSE Some(1)
    ELSE IF ttype = TOKEN_NEAR_ITEM
    THEN Some(s.direction)
    ELSE IF ttype = TOKEN_QUALIFIER
    THEN appendable_qualifier(s)
    ELSE None

\* advance adding the break penalty also when it extends the last range.
advance_charges_extension(s, ttype, endpos, force_break, break_penalty) ==
    LET newdir == appendable(s, ttype)
    IN  IF newdir = None
        THEN None
        ELSE IF s.seq = <<>>
        THEN Some(TokenSequence(<<TypedRange(ttype, TokenRange(0, endpos))>>,
                                newdir[1], s.penalty + 0))
        ELSE LET lst == s.seq[Len(s.seq)]
             IN  IF ~force_break /\ lst.ttype = ttype
                 THEN Some(TokenSequence(
                          SubSeq(s.seq, 1, Len(s.seq) - 1)
                            \o <<TypedRange(ttype, ReplaceEnd(lst.trange, endpos))>>,
                          newdir[1], s.penalty + break_penalty))
                 ELSE Some(TokenSequence(
                          s.seq \o <<TypedRange(ttype,
                                                TokenRange(lst.trange.end, endpos))>>,
                          newdir[1], s.penalty + break_penalty))

\* _TokenSequence.advance: None when the type cannot be appended.
advance(s, ttype, endpos, force_break, break_penalty) ==
    LET newdir == appendable(s, ttype)
    IN  IF newdir = None
        THEN None
        ELSE IF s.seq = <<>>
        THEN Some(TokenSequence(<<TypedRange(ttype, TokenRange(0, endpos))>>,
                                newdir[1], s.penalty + 0))
        ELSE LET lst == s.seq[Len(s.seq)]
             IN  IF ~force_break /\ lst.ttype = ttype
                 THEN Some(TokenSequence(
                          SubSeq(s.seq, 1, Len(s.seq) - 1)
                            \o <<TypedRange(ttype, ReplaceEnd(lst.trange, endpos))>>,
                          newdir[1], s.penalty + 0))
                 ELSE Some(TokenSequence(
                          s.seq \o <<TypedRange(ttype,
                                                TokenRange(lst.trange.end, endpos))>>,
                          newdir[1], s.penalty + break_penalty))

\* _adapt_penalty_from_priors turning every sequence with two or more
\* priors into the new direction.
adapt_penalty_from_priors_redirects(s, priors, new_dir) ==
    IF priors >= 2
    THEN Some([s EXCEPT !.direction = new_dir])
    ELSE Some(s)

\* _adapt_penalty_from_priors: None stands for the result False.
adapt_penalty_from_priors(s, priors, new_dir) ==
    IF priors >= 2
    THEN IF s.direction = 0
         THEN Some([s EXCEPT !.direction = new_dir])
         ELSE IF priors = 2
              THEN Some([s EXCEPT !.penalty = @ + PenaltyPriors])
              ELSE None
    ELSE Some(s)

\* Number of PARTIAL segments among seq[from..to] (1-based, inclusive).
CountPartials(seq, from, to) ==
    Cardinality({i \in from..to : seq[i].ttype = TOKEN_PARTIAL})

\* Position of the first HOUSENUMBER segment, 0 when there is none.
hnrpos(seq) ==
    IF \E i \in DOMAIN seq : seq[i].ttype = TOKEN_HOUSENUMBER
    THEN CHOOSE i \in DOMAIN seq :
            /\ seq[i].ttype = TOKEN_HOUSENUMBER
            /\ \A j \in 1..(i - 1) : seq[j].ttype # TOKEN_HOUSENUMBER
    ELSE 0

recheck_near_item(s) ==
    IF \E i \in DOMAIN s.seq : s.seq[i].ttype = TOKEN_NEAR_ITEM
    THEN [s EXCEPT !.penalty = @ + PenaltyNearHnr]
    ELSE s

\* recheck_sequence judging both sides by the direction before the check.
recheck_sequence_sides_apart(s) ==
    LET hp == hnrpos(s.seq)
    IN  IF hp = 0
        THEN Some(s)
        ELSE LET s1 == IF s.direction # -1
                       THEN adapt_penalty_from_priors(
                                s, CountPartials(s.seq, 1, hp - 1), -1)
                       ELSE Some(s)
             IN  IF s1 = None
                 THEN None
                 ELSE LET s2 == IF s.direction # 1
                                THEN adapt_penalty_from_priors(
                                         [s1[1] EXCEPT !.direction = s.direction],
                                         CountPartials(s.seq, hp + 1, Len(s.seq)),
                                         1)
                                ELSE s1
                      IN  IF s2 = None
                          THEN None
                          ELSE Some(recheck_near_item(
                                  IF s2[1].direction = 0
                                  THEN [s2[1] EXCEPT !.direction = s1[1].direction]
                                  ELSE s2[1]))

\* recheck_sequence: None stands for the result False, otherwise the
\* sequence with its adapted direction and penalty.
recheck_sequence(s) ==
    LET hp == hnrpos(s.seq)
    IN  IF hp = 0
        THEN Some(s)
        ELSE LET s1 == IF s.direction # -1
                       THEN adapt_penalty_from_priors(
                                s, CountPartials(s.seq, 1, hp - 1), -1)
                       ELSE Some(s)
             IN  IF s1 = None
                 THEN None
                 ELSE LET s2 == IF s1[1].direction # 1
                                THEN adapt_penalty_from_priors(
                                         s1[1],
                                         CountPartials(s.seq, hp + 1, Len(s.seq)),
                                         1)
                                ELSE s1
                      IN  IF s2 = None
                          THEN None
                          ELSE Some(recheck_near_item(s2[1]))

(***************************************************************************)
(* TokenAssignment                                                         *)
(***************************************************************************)
\* The range of the last segment of the given type: from_ranges assigns
\* the field for every such segment, the last assignment stays.
LastOfType(ranges, ttype) ==
    IF \E i \in DOMAIN ranges : ranges[i].ttype = ttype
    THEN LET i == CHOOSE k \in DOMAIN ranges :
                     /\ ranges[k].ttype = ttype
                     /\ \A j \in (k + 1)..Len(ranges) : ranges[j].ttype # ttype
         IN  ranges[i].trange
    ELSE NoRange

RECURSIVE AddressOf(_)
AddressOf(ranges) ==
    IF ranges = <<>>
    THEN <<>>
    ELSE IF Head(ranges).ttype = TOKEN_PARTIAL
         THEN <<Head(ranges).trange>> \o AddressOf(Tail(ranges))
         ELSE AddressOf(Tail(ranges))

\* from_ranges without the branch for qualifiers.
from_ranges_no_qualifier(ranges) ==
    [penalty |-> 0,
     name |-> NoRange,
     address |-> AddressOf(ranges),
     housenumber |-> LastOfType(ranges, TOKEN_HOUSENUMBER),
     postcode |-> LastOfType(ranges, TOKEN_POSTCODE),
     country |-> LastOfType(ranges, TOKEN_COUNTRY),
     near_item |-> LastOfType(ranges, TOKEN_NEAR_ITEM),
     qualifier |-> NoRange]

from_ranges(ranges) ==
    [penalty |-> 0,
     name |-> NoRange,
     address |-> AddressOf(ranges),
     housenumber |-> LastOfType(ranges, TOKEN_HOUSENUMBER),
     postcode |-> LastOfType(ranges, TOKEN_POSTCODE),
     country |-> LastOfType(ranges, TOKEN_COUNTRY),
     near_item |-> LastOfType(ranges, TOKEN_NEAR_ITEM),
     qualifier |-> LastOfType(ranges, TOKEN_QUALIFIER)]

RECURSIVE SumLen(_)
SumLen(ranges) ==
    IF ranges = <<>>
    THEN 0
    ELSE (Head(ranges).end - Head(ranges).start) + SumLen(Tail(ranges))

Max(a, b) == IF a >= b THEN a ELSE b

Min(a, b) == IF a <= b THEN a ELSE b

\* _get_assignments_postcode with the surcharge on the postcode in front.
get_assignments_postcode_surcharge_in_front(s, base, query_len) ==
    IF \/ (base.postcode.start = 0 /\ s.direction # -1)
       \/ (base.postcode.end = query_len /\ s.direction # 1)
    THEN LET penalty == (IF base.postcode.start = 0
                         THEN s.penalty + PenaltyPostcode
                         ELSE s.penalty)
                        + PenaltyPostcode * Max(0, Len(base.address) - 1)
         IN  <<[base EXCEPT !.penalty = penalty]>>
    ELSE <<>>

get_assignments_postcode(s, base, query_len) ==
    IF \/ (base.postcode.start = 0 /\ s.direction # -1)
       \/ (base.postcode.end = query_len /\ s.direction # 1)
    THEN LET penalty == (IF base.postcode.start = 0
                         THEN s.penalty
                         ELSE s.penalty + PenaltyPostcode)
                        + PenaltyPostcode * Max(0, Len(base.address) - 1)
         IN  <<[base EXCEPT !.penalty = penalty]>>
    ELSE <<>>

\* The forward reading made cheaper by a positive dir_penalty.
forward_dir_penalty_favoured(s, base, q) ==
    IF ~Has(base.country) /\ s.direction = 1 /\ q.dir_penalty > 0
    THEN 0 - q.dir_penalty
    ELSE 0

forward_dir_penalty(s, base, q) ==
    IF ~Has(base.country) /\ s.direction = 1 /\ q.dir_penalty > 0
    THEN q.dir_penalty
    ELSE 0

\* The forward split omitted for every housenumber behind the name.
forward_split_omitted_any_housenumber(base, first, q) ==
    \/ (Has(base.housenumber) /\ RangeGt(base.housenumber, first))
    \/ (Has(base.qualifier) /\ RangeGt(base.qualifier, first))
    \/ q.ptype[first.start] # PHRASE_ANY

\* "if another name term comes after the first one and before the
\* housenumber, a qualifier comes after the name, the containing phrase is
\* strictly typed"
forward_split_omitted(base, first, q) ==
    \/ (Has(base.housenumber) /\ first.end < base.housenumber.start)
    \/ (Has(base.qualifier) /\ RangeGt(base.qualifier, first))
    \/ q.ptype[first.start] # PHRASE_ANY

get_assignments_address_forward(s, base, q) ==
    LET first == base.address[1]
    IN  IF Has(base.postcode) /\ RangeLt(base.postcode, first)
        THEN <<>>
        ELSE
        LET penalty == s.penalty + forward_dir_penalty(s, base, q)
            whole == <<[base EXCEPT !.penalty = penalty,
                                    !.name = first,
                                    !.address = Tail(base.address)]>>
        IN  IF forward_split_omitted(base, first, q)
            THEN whole
            ELSE
            LET penalty2 ==
                    penalty
                    + (IF \/ (Has(base.housenumber)
                              /\ RangeGt(base.housenumber, first))
                          \/ q.nsource > 1
                       THEN PenaltySplit ELSE 0)
                    + (IF s.direction = 0 /\ q.dir_penalty > 0
                       THEN q.dir_penalty ELSE 0)
            IN  whole \o
                [k \in 1..(first.end - first.start - 1) |->
                    LET i == first.start + k
                        sp == SplitRange(first, i)
                    IN  [base EXCEPT !.name = sp[1],
                                     !.address = <<sp[2]>> \o Tail(base.address),
                                     !.penalty = penalty2 + word_break_penalty(q, i)]]

\* The backward reading adding dir_penalty instead of subtracting it.
backward_dir_penalty_added(s, base, q) ==
    IF ~Has(base.country) /\ s.direction = -1 /\ q.dir_penalty < 0
    THEN q.dir_penalty
    ELSE 0

backward_dir_penalty(s, base, q) ==
    IF ~Has(base.country) /\ s.direction = -1 /\ q.dir_penalty < 0
    THEN 0 - q.dir_penalty
    ELSE 0

\* The penalty of a backward split as that of a forward split.
backward_split_penalty_as_forward(base, lst, q) ==
    IF \/ (Has(base.housenumber) /\ RangeLt(base.housenumber, lst))
       \/ q.nsource > 1
    THEN PenaltySplit ELSE 0

\* The penalties of a split in the right-to-left reading.
backward_split_penalty(base, lst, q) ==
    (IF Has(base.housenumber) /\ RangeLt(base.housenumber, lst)
     THEN PenaltySplitHnrBackward ELSE 0)
    + (IF q.nsource > 1 THEN PenaltySplit ELSE 0)

\* The right-to-left reading taking the last word for the name in every
\* sequence.
backward_whole_name_always(s, base) == TRUE

\* _get_assignments_address_backward: whether 'last word = name' is
\* yielded.
backward_whole_name(s, base) ==
    \/ s.direction = -1
    \/ Len(base.address) > 1
    \/ Has(base.postcode)

get_assignments_address_backward(s, base, q) ==
    LET lst == base.address[Len(base.address)]
        front == SubSeq(base.address, 1, Len(base.address) - 1)
    IN  IF Has(base.postcode) /\ RangeGt(base.postcode, lst)
        THEN <<>>
        ELSE
        LET penalty == s.penalty + backward_dir_penalty(s, base, q)
            whole == IF backward_whole_name(s, base)
                     THEN <<[base EXCEPT !.penalty = penalty,
                                         !.name = lst,
                                         !.address = front]>>
                     ELSE <<>>
        IN  IF \/ (Has(base.housenumber) /\ lst.start > base.housenumber.end)
               \/ (Has(base.qualifier) /\ RangeLt(base.qualifier, lst))
               \/ q.ptype[lst.start] # PHRASE_ANY
            THEN whole
            ELSE
            LET penalty2 ==
                    penalty
                    + backward_split_penalty(base, lst, q)
                    + (IF s.direction = 0 /\ q.dir_penalty < 0
                       THEN 0 - q.dir_penalty ELSE 0)
            IN  whole \o
                [k \in 1..(lst.end - lst.start - 1) |->
                    LET i == lst.start + k
                        sp == SplitRange(lst, i)
                    IN  [base EXCEPT !.name = sp[2],
                                     !.address = front \o <<sp[1]>>,
                                     !.penalty = penalty2 + word_break_penalty(q, i)]]

\* The limit applied to the number of address ranges instead of slots.
too_many_address_ranges(base) == Len(base.address) > MaxAddrTokens

\* The check of the number of address tokens in get_assignments.
too_many_address_tokens(base) == SumLen(base.address) > MaxAddrTokens

\* The variant for housenumber searches left out behind a postcode.
housenumber_variant_unless_postcode(s, base) ==
    IF Has(base.housenumber) /\ ~Has(base.qualifier) /\ ~Has(base.postcode)
    THEN <<[base EXCEPT !.penalty = s.penalty]>>
    ELSE <<>>

\* "variant for special housenumber searches"
housenumber_variant(s, base) ==
    IF Has(base.housenumber) /\ ~Has(base.qualifier)
    THEN <<[base EXCEPT !.penalty = s.penalty]>>
    ELSE <<>>

\* get_assignments: the assignments yielded for a completed sequence, in
\* the order of the yields.
get_assignments(s, q) ==
    LET base == from_ranges(s.seq)
    IN  IF too_many_address_tokens(base)
        THEN <<>>
        ELSE
        LET pcsearch == IF Has(base.postcode) /\ base.address # <<>>
                        THEN get_assignments_postcode(s, base, num_token_slots(q))
                        ELSE <<>>
        IN  IF base.address = <<>>
            THEN pcsearch \o
                 (IF /\ ~Has(base.housenumber)
                     /\ (Has(base.postcode) \/ Has(base.country)
                         \/ Has(base.near_item))
                  THEN <<[base EXCEPT !.penalty = s.penalty]>>
                  ELSE <<>>)
            ELSE
            LET s2 == IF Has(base.postcode) /\ base.postcode.start = 0
                      THEN [s EXCEPT !.penalty = @ + PenaltyPostcode]
                      ELSE s
            IN  pcsearch
                \o (IF s2.direction # -1
                    THEN get_assignments_address_forward(s2, base, q) ELSE <<>>)
                \o (IF s2.direction # 1
                    THEN get_assignments_address_backward(s2, base, q) ELSE <<>>)
                \o housenumber_variant(s2, base)

(***************************************************************************)
(* ICU query analyzer (icu_tokenizer.py).  Strings are sequences of        *)
(* characters; a term is a string without spaces.                          *)
(***************************************************************************)
\* Largest number of terms of an analysed query.
MaxTerms == 2
\* Largest number of rows the word table returns for a query.
MaxRows == 2
\* Largest edit distance rematch finds between a lookup word and the query.
MaxDistance == 1
\* Largest number of slots of the short queries handed to add_extra_tokens.
MaxExtraSlots == 3
\* How far beyond the terms add_extra_tokens goes through the longest
\* query reaches.
MaxBeyond == 2
\* Largest number of searches run against the details of one request.
MaxShared == 3
\* Largest number of terms of the sources handed to split_query alone.
MaxWindowTerms == 22

\* extract_words: a window has at most this many terms.
WindowSpan == 20
PenaltyPartialRow == 30
PenaltySingleDigitWord == 20
PenaltySingleCharWord == 30
PenaltyHnrNonDigit == 10
PenaltyHnrNoDigits == 20
PenaltyShortCountry == 30
PenaltyExtraHnr == 50
PenaltyPostcodeRerank == 39
PenaltyHnrRerank == 50
MaxExtraHnrLen == 4
\* add_extra_tokens: the loop ends with range(1000).
ExtraTokenTerms == 1000
MaxHnrRerankLen == 3
MinPostcodeHnrLen == 4

Digits == {"0", "1", "2", "3", "4", "5", "6", "7", "8", "9"}

Letters ==
    {"a", "b", "c", "d", "e", "f", "g", "h", "i", "j", "k", "l", "m",
     "n", "o", "p", "q", "r", "s", "t", "u", "v", "w", "x", "y", "z"}

\* str.isdigit()
isdigit(str) == str # <<>> /\ \A i \in DOMAIN str : str[i] \in Digits

\* QueryPart(token, normalized, penalty); the normalized form is not used
\* by the penalties and is left out.
QueryPart(token, penalty) == [token |-> token, penalty |-> penalty]

\* QueryNode
QueryNode(btype, ptype) ==
    [btype |-> btype, ptype |-> ptype, starting |-> <<>>, partial |-> <<>>]

\* ' '.join of the tokens of the terms first..last (0-based, inclusive).
RECURSIVE JoinTokens(_, _, _)
JoinTokens(parts, first, lst) ==
    IF lst = first
    THEN parts[first + 1].token
    ELSE JoinTokens(parts, first, lst - 1) \o <<" ">> \o parts[lst + 1].token

\* The penalty extract_words accumulates for the window first..last.
RECURSIVE WindowPenalty(_, _, _)
WindowPenalty(parts, first, lst) ==
    IF lst = first
    THEN PENALTY_IN_TOKEN_BREAK(BREAK_WORD)
    ELSE WindowPenalty(parts, first, lst - 1) + parts[lst].penalty

\* The windows of extract_words with one term less.
WindowsFrom_short(parts, first) ==
    [k \in 1..(Min(first + WindowSpan - 1, Len(parts)) - first) |->
        [word |-> JoinTokens(parts, first, first + k - 1),
         start |-> first, end |-> first + k,
         penalty |-> WindowPenalty(parts, first, first + k - 1)]]

\* The windows extract_words registers that start at term first.
WindowsFrom(parts, first) ==
    [k \in 1..(Min(first + WindowSpan, Len(parts)) - first) |->
        [word |-> JoinTokens(parts, first, first + k - 1),
         start |-> first, end |-> first + k,
         penalty |-> WindowPenalty(parts, first, first + k - 1)]]

\* extract_words: the words dictionary is kept as the sequence of its
\* (word, range) entries in the order they are added.
RECURSIVE extract_words(_, _)
extract_words(parts, start) ==
    IF start >= Len(parts)
    THEN <<>>
    ELSE WindowsFrom(parts, start) \o extract_words(parts, start + 1)

\* split_query: the terms of one transliterated word.
RECURSIVE SplitTerms(_, _, _)
SplitTerms(st, terms, ptype) ==
    IF terms = <<>>
    THEN st
    ELSE SplitTerms(
            [st EXCEPT
                !.parts = @ \o <<QueryPart(Head(terms),
                                           PENALTY_IN_TOKEN_BREAK(BREAK_TOKEN))>>,
                !.nodes = @ \o <<QueryNode(BREAK_TOKEN, ptype)>>],
            Tail(terms), ptype)

\* split_query: one (word, breakchar) pair of a phrase.  A word whose
\* transliteration is empty adds nothing.
SplitWord(st, w, ptype) ==
    IF w.terms = <<>>
    THEN st
    ELSE LET st1 == SplitTerms(st, w.terms, ptype)
         IN  [st1 EXCEPT
                !.nodes[Len(st1.nodes)].btype = w.breakchar,
                !.parts[Len(st1.parts)].penalty = PENALTY_IN_TOKEN_BREAK(w.breakchar)]

RECURSIVE SplitWords(_, _, _)
SplitWords(st, words, ptype) ==
    IF words = <<>>
    THEN st
    ELSE SplitWords(SplitWord(st, Head(words), ptype), Tail(words), ptype)

SplitPhrase(st, phrase) ==
    LET st0 == [st EXCEPT !.nodes[Len(st.nodes)].ptype = phrase.ptype]
        st1 == SplitWords(st0, phrase.words, phrase.ptype)
    IN  [st1 EXCEPT !.words = @ \o extract_words(st1.parts, st.phrase_start),
                    !.phrase_start = Len(st1.parts)]

RECURSIVE SplitPhrases(_, _)
SplitPhrases(st, source) ==
    IF source = <<>>
    THEN st
    ELSE SplitPhrases(SplitPhrase(st, Head(source)), Tail(source))

split_query(source) ==
    LET st == SplitPhrases(
                 [parts |-> <<>>,
                  nodes |-> <<QueryNode(BREAK_START,
                                        IF source = <<>> THEN PHRASE_ANY
                                        ELSE source[1].ptype)>>,
                  words |-> <<>>, phrase_start |-> 0],
                 source)
    IN  [st EXCEPT !.nodes[Len(st.nodes)].btype = BREAK_END]

\* Number of characters of word_token that are neither space nor digit.
NonDigits(str) ==
    Cardinality({i \in DOMAIN str : str[i] # " " /\ str[i] \notin Digits})

\* str.split('@', 1)[0]
RECURSIVE BeforeAt(_)
BeforeAt(str) ==
    IF str = <<>> \/ Head(str) = "@"
    THEN <<>>
    ELSE <<Head(str)>> \o BeforeAt(Tail(str))

\* The lookup word of a row: info['lookup'], else word, cut at the first
\* '@'; word_token when the row has neither.
row_lookup_word(row) ==
    LET lw == IF row.lookup # <<>> THEN row.lookup ELSE row.word
    IN  IF lw # <<>> THEN BeforeAt(lw) ELSE row.word_token

\* The penalty from_db_row adds for the type of the row.
row_type_penalty(row) ==
    IF row.type = "w"
    THEN PenaltyPartialRow
    ELSE IF row.type = "W"
    THEN IF Len(row.word_token) = 1 /\ row.word_token = row.word
         THEN IF isdigit(row.word) THEN PenaltySingleDigitWord
                                   ELSE PenaltySingleCharWord
         ELSE 0
    ELSE IF row.type = "H"
    THEN PenaltyHnrNonDigit * NonDigits(row.word_token)
         + (IF \A i \in DOMAIN row.word_token : row.word_token[i] \notin Digits
            THEN PenaltyHnrNoDigits * (Len(row.word_token) - 1)
            ELSE 0)
    ELSE IF row.type = "C"
    THEN IF Len(row.word_token) = 1 THEN PenaltyShortCountry ELSE 0
    ELSE 0

\* ICUToken.from_db_row.  dist is the edit distance rematch will find
\* between the lookup word and the normalised query text.
from_db_row(row, base_penalty) ==
    [penalty |-> base_penalty + row_type_penalty(row),
     token |-> row.word_id,
     lookup_word |-> row_lookup_word(row),
     word_token |-> row.word_token,
     dist |-> row.dist]

\* Index of the token list of the node with the given end and type,
\* 0 when there is none.
ListIndex(node, end, ttype) ==
    IF \E k \in DOMAIN node.starting :
          node.starting[k].end = end /\ node.starting[k].ttype = ttype
    THEN CHOOSE k \in DOMAIN node.starting :
            node.starting[k].end = end /\ node.starting[k].ttype = ttype
    ELSE 0

\* QueryNode.has_tokens
has_tokens(node, end, ttypes) ==
    \E k \in DOMAIN node.starting :
        node.starting[k].end = end /\ node.starting[k].ttype \in ttypes

\* QueryStruct.add_token: partial tokens are kept at the node, the others
\* in the token list of their range and type.
add_token(nodes, start, end, ttype, token) ==
    LET node == nodes[start + 1]
        k == ListIndex(node, end, ttype)
    IN  IF ttype = TOKEN_PARTIAL
        THEN [nodes EXCEPT ![start + 1].partial = @ \o <<token>>]
        ELSE IF k = 0
        THEN [nodes EXCEPT ![start + 1].starting =
                 @ \o <<[end |-> end, ttype |-> ttype, tokens |-> <<token>>]>>]
        ELSE [nodes EXCEPT ![start + 1].starting[k].tokens = @ \o <<token>>]

DB_TO_TOKEN_TYPE(type) ==
    CASE type = "W" -> TOKEN_WORD
      [] type = "w" -> TOKEN_PARTIAL
      [] type = "H" -> TOKEN_HOUSENUMBER
      [] type = "P" -> TOKEN_POSTCODE
      [] type = "C" -> TOKEN_COUNTRY

\* The token of a row with an in or near operator behind slot 0 kept as
\* the token of any other category row.
add_row_token_keeps_operator(nodes, row, r) ==
    LET token == from_db_row(row, r.penalty)
        nslots == Len(nodes) - 1
    IN  IF row.type = "S"
        THEN IF row.op \in {"in", "near"} /\ r.start = 0
             THEN add_token(nodes, r.start, r.end, TOKEN_NEAR_ITEM, token)
             ELSE IF r.start = 0 /\ r.end = nslots
                  THEN add_token(nodes, r.start, r.end, TOKEN_NEAR_ITEM, token)
                  ELSE add_token(nodes, r.start, r.end, TOKEN_QUALIFIER, token)
        ELSE add_token(nodes, r.start, r.end, DB_TO_TOKEN_TYPE(row.type), token)

\* analyze_query: the token added for a row at one of its ranges.
add_row_token(nodes, row, r) ==
    LET token == from_db_row(row, r.penalty)
        nslots == Len(nodes) - 1
    IN  IF row.type = "S"
        THEN IF row.op \in {"in", "near"}
             THEN IF r.start = 0
                  THEN add_token(nodes, r.start, r.end, TOKEN_NEAR_ITEM, token)
                  ELSE nodes
             ELSE IF r.start = 0 /\ r.end = nslots
                  THEN add_token(nodes, r.start, r.end, TOKEN_NEAR_ITEM, token)
                  ELSE add_token(nodes, r.start, r.end, TOKEN_QUALIFIER, token)
        ELSE add_token(nodes, r.start, r.end, DB_TO_TOKEN_TYPE(row.type), token)

RECURSIVE add_row_tokens(_, _, _)
add_row_tokens(nodes, row, ranges) ==
    IF ranges = <<>>
    THEN nodes
    ELSE add_row_tokens(add_row_token(nodes, row, Head(ranges)), row, Tail(ranges))

\* words[row.word_token]
RangesOf(words, word) ==
    LET Same(e) == e.word = word
    IN  SelectSeq(words, Same)

RECURSIVE add_rows(_, _, _)
add_rows(nodes, rows, words) ==
    IF rows = <<>>
    THEN nodes
    ELSE add_rows(add_row_tokens(nodes, Head(rows),
                                 RangesOf(words, Head(rows).word_token)),
                  Tail(rows), words)

\* The condition of add_extra_tokens without the look at the tokens of
\* the node.
extra_token_wanted_unchecked(node, part, i) ==
    /\ Len(part.token) <= MaxExtraHnrLen
    /\ isdigit(part.token)

\* The condition of add_extra_tokens for the i-th term (0-based).
extra_token_wanted(node, part, i) ==
    /\ Len(part.token) <= MaxExtraHnrLen
    /\ isdigit(part.token)
    /\ ~has_tokens(node, i + 1, {TOKEN_HOUSENUMBER})

\* The token add_extra_tokens creates for a term.
extra_token(part) ==
    [penalty |-> PenaltyExtraHnr, token |-> 0,
     lookup_word |-> part.token, word_token |-> part.token, dist |-> 0]

\* add_extra_tokens, for the terms i.. (0-based): the loop runs over
\* zip(parts, query.nodes, range(1000)), each round looks at and adds to
\* the node of its own term only.
add_extra_tokens(nodes, parts, i) ==
    [n \in DOMAIN nodes |->
        LET j == n - 1
        IN  IF /\ j >= i
               /\ j < Min(Min(Len(parts), Len(nodes)), ExtraTokenTerms)
            THEN IF extra_token_wanted(nodes[n], parts[n], j)
                 THEN add_token(nodes, j, j + 1, TOKEN_HOUSENUMBER,
                                extra_token(parts[n]))[n]
                 ELSE nodes[n]
            ELSE nodes[n]]

\* TokenList.add_penalty
add_penalty(tlist, penalty) ==
    [tlist EXCEPT !.tokens =
        [t \in DOMAIN tlist.tokens |->
            [tlist.tokens[t] EXCEPT !.penalty = @ + penalty]]]

\* ICUToken.rematch; the edit distance between the lookup word and the
\* normalised text is the distance recorded with the token.
rematch_penalty(token) ==
    IF token.lookup_word = <<>>
    THEN 0
    ELSE (100 * token.dist) \div Len(token.lookup_word)

rematch(token) == [token EXCEPT !.penalty = @ + rematch_penalty(token)]

\* any(c.isdigit() for c in str)
has_digit(str) == \E i \in DOMAIN str : str[i] \in Digits

\* The postcode rule with the length of the competitor's own lookup word
\* deciding, a long housenumber being spared.
postcode_competitor_by_own_word(tlist, repl) ==
    /\ repl.end = tlist.end
    /\ repl.ttype # TOKEN_POSTCODE
    /\ ~ /\ repl.ttype = TOKEN_HOUSENUMBER
         /\ Len(repl.tokens[1].lookup_word) > MinPostcodeHnrLen

\* rerank_tokens: the lists the postcode list tlist penalises.
postcode_competitor(tlist, repl) ==
    /\ repl.end = tlist.end
    /\ repl.ttype # TOKEN_POSTCODE
    /\ \/ repl.ttype # TOKEN_HOUSENUMBER
       \/ Len(tlist.tokens[1].lookup_word) > MinPostcodeHnrLen

\* rerank_tokens: the lists the housenumber list tlist adjusts.
housenumber_competitor(tlist, repl) ==
    /\ repl.end = tlist.end
    /\ repl.ttype # TOKEN_HOUSENUMBER

\* rerank_tokens: the adjustment of the housenumber rule.
housenumber_adjustment(tlist) == PenaltyHnrRerank - tlist.tokens[1].penalty

\* The rule rerank_tokens applies for a token list.
rerank_rule(tlist) ==
    IF tlist.ttype = TOKEN_POSTCODE
    THEN "postcode"
    ELSE IF /\ tlist.ttype = TOKEN_HOUSENUMBER
            /\ Len(tlist.tokens[1].lookup_word) <= MaxHnrRerankLen
    THEN IF has_digit(tlist.tokens[1].lookup_word) THEN "housenumber" ELSE "none"
    ELSE IF tlist.ttype \notin {TOKEN_COUNTRY, TOKEN_PARTIAL}
    THEN "rematch"
    ELSE "none"

\* One round of the loop of rerank_tokens: list k of node i (0-based).
\* adjust logs every amount added to a list.
rerank_list(st, i, k) ==
    LET node == st.nodes[i + 1]
        tlist == node.starting[k]
        rule == rerank_rule(tlist)
        ToList(m) == node.starting[m]
        hit == IF rule = "postcode"
               THEN {m \in DOMAIN node.starting : postcode_competitor(tlist, ToList(m))}
               ELSE IF rule = "housenumber"
               THEN {m \in DOMAIN node.starting : housenumber_competitor(tlist, ToList(m))}
               ELSE {}
        amount == IF rule = "postcode" THEN PenaltyPostcodeRerank
                  ELSE housenumber_adjustment(tlist)
        IsHit(m) == m \in hit
        hitseq == SelectSeq([m \in DOMAIN node.starting |-> m], IsHit)
    IN  IF rule = "rematch"
        THEN [st EXCEPT
                !.nodes[i + 1].starting[k].tokens =
                    [t \in DOMAIN tlist.tokens |-> rematch(tlist.tokens[t])],
                !.adjust = @ \o
                    [t \in DOMAIN tlist.tokens |->
                        [rule |-> rule, node |-> i, from |-> k, to |-> k,
                         amount |-> rematch_penalty(tlist.tokens[t])]]]
        ELSE [st EXCEPT
                !.nodes[i + 1].starting =
                    [m \in DOMAIN node.starting |->
                        IF m \in hit THEN add_penalty(node.starting[m], amount)
                                     ELSE node.starting[m]],
                !.adjust = @ \o
                    [x \in DOMAIN hitseq |->
                        [rule |-> rule, node |-> i, from |-> k, to |-> hitseq[x],
                         amount |-> amount]]]

\* rerank_tokens from list k of node i on, in the order of iter_token_lists.
RECURSIVE rerank_from(_, _, _)
rerank_from(st, i, k) ==
    IF i >= Len(st.nodes)
    THEN st
    ELSE IF k > Len(st.nodes[i + 1].starting)
    THEN rerank_from(st, i + 1, 1)
    ELSE rerank_from(rerank_list(st, i, k), i, k + 1)

rerank_tokens(nodes) == rerank_from([nodes |-> nodes, adjust |-> <<>>], 0, 1)

\* A source that is taken for a query with phrases whatever it holds.
source_is_empty_never(source) == FALSE

\* not query.source
source_is_empty(source) == source = <<>>

\* analyze_query for a non-empty source and the rows the word table returns.
analyze_query(source, rows) ==
    LET split == split_query(source)
        looked == add_rows(split.nodes, rows, split.words)
        extra == add_extra_tokens(looked, split.parts, 0)
        ranked == rerank_tokens(extra)
    IN  [parts |-> split.parts, words |-> split.words,
         created |-> extra, nodes |-> ranked.nodes, adjust |-> ranked.adjust]

(***************************************************************************)
(* The phrases handed to analyze_query and the rows of the word table.     *)
(***************************************************************************)
\* The transliterated terms.
Terms ==
    {<<"1">>, <<"a">>, <<"a", "b", "c", "d", "e", "f">>, <<"1", "2", "3", "4", "5">>}

\* The break characters re.split finds inside a phrase.
WordBreaks == {BREAK_WORD, BREAK_SOFT_PHRASE, BREAK_PART}

\* The transliteration of one word: no term, one term or several terms.
TermSeqs == {<<>>} \cup UNION {[1..k -> Terms] : k \in 1..MaxTerms}

\* A phrase as the (word, breakchar) pairs of split_query, the words
\* already transliterated; the last word is paired with the fill value.
PhraseWords ==
    {<<[terms |-> t, breakchar |-> BREAK_PHRASE]>> : t \in TermSeqs}
    \cup {<<[terms |-> t1, breakchar |-> b], [terms |-> t2, breakchar |-> BREAK_PHRASE]>> :
            t1 \in TermSeqs \ {<<>>}, b \in WordBreaks, t2 \in TermSeqs}

RECURSIVE NumTerms(_)
NumTerms(words) ==
    IF words = <<>> THEN 0 ELSE Len(Head(words).terms) + NumTerms(Tail(words))

Phrases(maxterms) ==
    {[ptype |-> PHRASE_ANY, words |-> w] :
        w \in {x \in PhraseWords : NumTerms(x) \in 1..maxterms}}

TokInputs ==
    {<<p>> : p \in Phrases(MaxTerms)}
    \cup {<<p1, p2>> : p1 \in Phrases(MaxTerms - 1), p2 \in Phrases(MaxTerms - 1)}

\* Sources of one or two phrases of words of one term, of up to
\* MaxWindowTerms terms together; the second phrase starts at term cut.
LongPhrase(n) ==
    [ptype |-> PHRASE_ANY,
     words |-> [k \in 1..n |->
                  [terms |-> <<IF k % 2 = 1 THEN <<"a">> ELSE <<"1">>>>,
                   breakchar |-> IF k = n THEN BREAK_PHRASE ELSE BREAK_WORD]]]

LongSources ==
    {IF cut = 0 \/ cut >= n
     THEN <<LongPhrase(n)>>
     ELSE <<LongPhrase(cut), LongPhrase(n - cut)>> :
        n \in 1..MaxWindowTerms, cut \in 0..(MaxWindowTerms - 1)}

\* The ranges of a query of n slots.
SlotRanges(n) == {<<b, e>> \in (0..n) \X (0..n) : b < e}

\* The terms and nodes of a query of one-term words in one phrase, after
\* the word table has returned an H row for every window of the ranges
\* hr and before add_extra_tokens.
LookedQuery(terms, hr) ==
    LET n == Len(terms)
        parts == [k \in 1..n |->
                    QueryPart(terms[k],
                              PENALTY_IN_TOKEN_BREAK(IF k = n THEN BREAK_PHRASE
                                                              ELSE BREAK_WORD))]
        Token(b, e) ==
            from_db_row([word_id |-> 1 + b * (n + 1) + e,
                         word_token |-> JoinTokens(parts, b, e - 1),
                         type |-> "H", word |-> JoinTokens(parts, b, e - 1),
                         lookup |-> <<>>, op |-> "-", dist |-> 0],
                        WindowPenalty(parts, b, e - 1))
        Returned_(b) ==
            LET In(l) == <<b, l.end>> \in hr
            IN  SelectSeq([k \in 1..(n - b) |->
                              [end |-> b + k, ttype |-> TOKEN_HOUSENUMBER,
                               tokens |-> <<Token(b, b + k)>>]], In)
    IN  [parts |-> parts,
         nodes |-> [k \in 1..(n + 1) |->
                      [btype |-> IF k = 1 THEN BREAK_START
                                 ELSE IF k = n + 1 THEN BREAK_END ELSE BREAK_WORD,
                       ptype |-> PHRASE_ANY,
                       starting |-> IF hr = {} THEN <<>> ELSE Returned_(k - 1),
                       partial |-> <<>>]]]

\* Short queries with every choice of H rows, and queries of digit terms
\* around the number of terms add_extra_tokens goes through.
LookedQueries ==
    UNION {{LookedQuery(t, hr) : t \in [1..n -> {<<"1">>, <<"a">>}],
                                 hr \in SUBSET SlotRanges(n)} :
           n \in 1..MaxExtraSlots}
    \cup {LookedQuery([k \in 1..n |-> <<"1">>], {}) :
            n \in (ExtraTokenTerms - 1)..(ExtraTokenTerms + MaxBeyond)}

\* A row of the word table.  info is given by its keys lookup and op.
WordRow(word_id, word_token, shape) ==
    [word_id |-> word_id, word_token |-> word_token, type |-> shape.type,
     word |-> word_token,
     lookup |-> shape.lookup, op |-> shape.op, dist |-> shape.dist]

RowShapes ==
    {[type |-> "W", lookup |-> <<>>, op |-> "-", dist |-> d] : d \in 0..MaxDistance}
    \cup {[type |-> t, lookup |-> <<>>, op |-> "-", dist |-> 0] : t \in {"w", "H", "P", "C"}}
    \cup {[type |-> "H", lookup |-> <<"1", "a", "@", "x">>, op |-> "-", dist |-> 0]}
    \cup {[type |-> "S", lookup |-> <<>>, op |-> o, dist |-> 0] : o \in {"near", "-"}}

\* The results lookup_in_db can give for the looked-up words: up to
\* MaxRows rows whose word_token is one of the words.
RowsAt(words, word_id) ==
    {WordRow(word_id, words[k].word, s) : k \in DOMAIN words, s \in RowShapes}

RECURSIVE RowSeqs(_, _)
RowSeqs(words, n) ==
    IF n = 0
    THEN {<<>>}
    ELSE RowSeqs(words, n - 1)
         \cup {Append(rs, r) : rs \in {x \in RowSeqs(words, n - 1) : Len(x) = n - 1},
                               r \in RowsAt(words, n)}

\* The analyzer before a query is handed to it.
NoAnalysis ==
    [parts |-> <<>>, words |-> <<>>, created |-> <<>>, nodes |-> <<>>,
     adjust |-> <<>>]

TokIdle ==
    [pc |-> "idle", source |-> <<>>, rows |-> <<>>, calls |-> <<>>,
     result |-> NoAnalysis]

\* The query of a run in which only the analyzer acts.
NoQuery ==
    [n |-> 0, btype |-> [i \in 0..0 |-> BREAK_END],
     ptype |-> [i \in 0..0 |-> PHRASE_ANY], nsource |-> 0, dir_penalty |-> 0,
     starting |-> [i \in 0..0 |-> <<>>], partial |-> [i \in 0..0 |-> FALSE]]

(***************************************************************************)
(* Database searches (db_searches.py).  A catalog row carries the columns  *)
(* the searches read; the outcome of a geometric test of a row against a   *)
(* parameter of the request is a column of the row.                        *)
(***************************************************************************)
\* Largest details.max_results.
MaxResults == 2
\* Largest number of categories of a NearSearch.
MaxCategories == 3
\* Largest number of inner results of a NearSearch.
MaxBase == 7

\* NearSearch.lookup
NearAccuracySlack == 50
NearMaxArea == 20
NearMaxAnchors == 5
NearStreetRank == 26
NearMaxPlaceRank == 25
NearRankSpan == 4
MaxAddressRank == 30
\* lookup_category: reach of the join in hundredths of a degree
ReachPlacex == 1
ReachClassTable == 5
\* PlaceSearch
MinHnrParentRank == 16
MinPostcodeAddressRank == 9
PenaltyNoHousenumber == 100
PenaltyOtherHousenumber == 60
PenaltyNoPostcode == 200
PenaltyViewbox2 == 50
PenaltyOutsideViewbox == 100
PreselectSlack == 50
ManyExpected == 10000
\* CountrySearch
CountryRank == 4
CountryMinRank == 5
CountryMaxRank == 25
PenaltyOtherCountry == 500
\* PostcodeSearch
PenaltyOtherPostcode == 100
\* PoiSearch
SmallNearRadius == 20
\* filter_by_area
IndexNearRadius == 10

SOURCE_PLACEX == "PLACEX"
SOURCE_OSMLINE == "OSMLINE"
SOURCE_TIGER == "TIGER"
SOURCE_POSTCODE == "POSTCODE"
SOURCE_COUNTRY == "COUNTRY"

\* place_id of a result without one
NoPlace == 0
\* near_radius and layers when not set
NoRadius == -1
NoLayers == {"-"}

\* _details_to_bind_params: the fields of SearchDetails the searches read.
\* near and viewbox tell whether the parameter is set.
SearchDetails(max_results, excluded, min_rank, max_rank) ==
    [max_results |-> max_results, excluded |-> excluded,
     min_rank |-> min_rank, max_rank |-> max_rank,
     countries |-> {}, layers |-> NoLayers,
     near |-> FALSE, near_radius |-> NoRadius,
     viewbox |-> FALSE, bounded_viewbox |-> FALSE]

\* nres.create_from_placex_row and its siblings: the fields of a
\* SearchResult that the searches set or read.
SearchResult(source_table, row) ==
    [place_id |-> row.place_id, source_table |-> source_table,
     rank_address |-> row.rank_address, rank_search |-> row.rank_search,
     category |-> row.category, country_code |-> row.country_code,
     housenumber |-> row.housenumber, accuracy |-> 0, area |-> row.area]

\* A row of placex (joined with search_name or a class table where the
\* search does so).
PlacexRow(place_id, rank, category) ==
    [place_id |-> place_id, rank_address |-> rank, rank_search |-> rank,
     category |-> category, country_code |-> "de", housenumber |-> <<>>,
     postcode |-> "", area |-> 1, importance |-> 40, penalty |-> 0,
     in_near |-> TRUE, in_viewbox |-> TRUE, in_viewbox2 |-> TRUE,
     near_dist |-> 0, near_postcode |-> TRUE, postcode_dist |-> 0,
     is_address_point |-> FALSE, linked |-> FALSE, indexed |-> TRUE,
     children |-> <<>>]

\* filter_by_area
filter_by_area(row, details) ==
    /\ details.near /\ details.near_radius # NoRadius => row.in_near
    /\ details.viewbox /\ details.bounded_viewbox => row.in_viewbox

\* _exclude_places
exclude_places(row, details) == row.place_id \notin details.excluded

\* _filter_by_layer
filter_by_layer(row, layers) ==
    \/ /\ "ADDRESS" \in layers
       /\ "POI" \in layers
       /\ row.rank_address \in 1..30
    \/ /\ "ADDRESS" \in layers
       /\ "POI" \notin layers
       /\ row.rank_address \in 1..29 \/ row.is_address_point
    \/ /\ "ADDRESS" \notin layers
       /\ "POI" \in layers
       /\ row.rank_address = 30
       /\ row.category[1] \notin {"place", "building"}
    \/ /\ "MANMADE" \in layers
       /\ row.rank_address = 0
       /\ "RAILWAY" \notin layers => row.category[1] # "railway"
       /\ "NATURAL" \notin layers => row.category[1] \notin {"natural", "water", "waterway"}
    \/ /\ "MANMADE" \notin layers
       /\ row.rank_address = 0
       /\ \/ "RAILWAY" \in layers /\ row.category[1] = "railway"
          \/ "NATURAL" \in layers /\ row.category[1] \in {"natural", "water", "waterway"}

\* Stable sort of a sequence of [key, val] records by ascending key.
RECURSIVE InsertByKey(_, _)
InsertByKey(sorted, x) ==
    IF sorted = <<>>
    THEN <<x>>
    ELSE IF sorted[Len(sorted)].key <= x.key
    THEN Append(sorted, x)
    ELSE Append(InsertByKey(SubSeq(sorted, 1, Len(sorted) - 1), x),
                sorted[Len(sorted)])

RECURSIVE SortByKey(_)
SortByKey(s) ==
    IF s = <<>>
    THEN <<>>
    ELSE InsertByKey(SortByKey(SubSeq(s, 1, Len(s) - 1)), s[Len(s)])

Values(s) == [k \in DOMAIN s |-> s[k].val]

\* SQL LIMIT
Limit(rows, n) == SubSeq(rows, 1, Min(n, Len(rows)))

\* Concatenation of a sequence of sequences.
RECURSIVE Flatten(_)
Flatten(ss) == IF ss = <<>> THEN <<>> ELSE Head(ss) \o Flatten(Tail(ss))

(***************************************************************************)
(* PlaceSearch                                                             *)
(***************************************************************************)
\* int(n) for a string of digits
DigitValue(c) ==
    CASE c = "0" -> 0 [] c = "1" -> 1 [] c = "2" -> 2 [] c = "3" -> 3
      [] c = "4" -> 4 [] c = "5" -> 5 [] c = "6" -> 6 [] c = "7" -> 7
      [] c = "8" -> 8 [] c = "9" -> 9

RECURSIVE ToInt(_)
ToInt(str) ==
    IF str = <<>>
    THEN 0
    ELSE 10 * ToInt(SubSeq(str, 1, Len(str) - 1)) + DigitValue(str[Len(str)])

\* str(n) for n >= 0
DigitChar(d) ==
    CASE d = 0 -> "0" [] d = 1 -> "1" [] d = 2 -> "2" [] d = 3 -> "3"
      [] d = 4 -> "4" [] d = 5 -> "5" [] d = 6 -> "6" [] d = 7 -> "7"
      [] d = 8 -> "8" [] d = 9 -> "9"

RECURSIVE ToStr(_)
ToStr(n) ==
    IF n < 10 THEN <<DigitChar(n)>> ELSE Append(ToStr(n \div 10), DigitChar(n % 10))

\* The SearchData fields PlaceSearch keeps.  housenumbers, postcodes,
\* countries and qualifiers hold the values of the weighted lists.
PlaceSearchData(penalty, housenumbers) ==
    [penalty |-> penalty, housenumbers |-> housenumbers, postcodes |-> {},
     countries |-> {}, qualifiers |-> {}, expected_count |-> 1]

\* A row of placex, location_property_osmline or location_property_tiger
\* below the row of a street.  housenumber holds the numbers of the
\* ';'-separated list of the column.
ChildRow(table, place_id, housenumber, startnumber, endnumber, step) ==
    [table |-> table, place_id |-> place_id, rank_address |-> 30,
     rank_search |-> 30, category |-> <<"place", "house">>,
     country_code |-> "de", housenumber |-> housenumber, area |-> 1,
     startnumber |-> startnumber, endnumber |-> endnumber, step |-> step,
     linked |-> FALSE, indexed |-> TRUE]

\* RegexpWord(hnr_list, housenumber)
\* The word h stands in the string str at position p, with no word
\* character next to it.
WordAt(str, h, p) ==
    /\ p + Len(h) - 1 <= Len(str)
    /\ SubSeq(str, p, p + Len(h) - 1) = h
    /\ p > 1 => str[p - 1] \notin Digits \cup Letters
    /\ p + Len(h) <= Len(str) => str[p + Len(h)] \notin Digits \cup Letters

RegexpWord(housenumbers, housenumber) ==
    \E k \in DOMAIN housenumber :
        \E h \in DOMAIN housenumbers :
            \E p \in DOMAIN housenumber[k] : WordAt(housenumber[k], housenumbers[h], p)

\* numerals of PlaceSearch.lookup
Numeral(str) == isdigit(str) /\ Len(str) < 8

numerals(housenumbers) ==
    LET digits == SelectSeq(housenumbers, Numeral)
    IN  [k \in DOMAIN digits |-> ToInt(digits[k])]

\* case((importance > 0, importance), else_=0.40001 - search_rank/75)
cte_importance(row) ==
    IF row.importance > 0
    THEN row.importance
    ELSE 40 - (100 * row.rank_search) \div 75

\* The WHERE clauses of _inner_search_name_cte; the rows given match the
\* lookups of the search.
cte_where(search, details, row) ==
    /\ search.countries # {} => row.country_code \in search.countries
    /\ search.postcodes # {} =>
          /\ row.rank_address > MinPostcodeAddressRank
          /\ search.expected_count > ManyExpected => row.near_postcode
    /\ details.viewbox =>
          IF details.bounded_viewbox
          THEN row.in_viewbox
          ELSE /\ search.postcodes = {}
               /\ search.housenumbers = <<>>
               /\ search.expected_count >= ManyExpected
               => row.in_viewbox2
    /\ details.near /\ details.near_radius # NoRadius => row.in_near
    /\ IF search.housenumbers # <<>>
       THEN row.rank_address \in MinHnrParentRank..MaxAddressRank
       ELSE /\ details.excluded # {} => exclude_places(row, details)
            /\ details.min_rank > 0 =>
                  \/ row.rank_address >= details.min_rank
                  \/ row.rank_search >= details.min_rank
            /\ details.max_rank < MaxAddressRank =>
                  \/ row.rank_address <= details.max_rank
                  \/ row.rank_search <= details.max_rank

\* Whether _inner_search_name_cte preselects the most important rows.
cte_preselects(search, details) ==
    /\ search.housenumbers = <<>>
    /\ ~details.viewbox \/ details.bounded_viewbox
    /\ ~details.near \/ details.near_radius # NoRadius
    /\ search.qualifiers = {}

\* penalty - importance of a row of the CTE
cte_score(search, row) == search.penalty + row.penalty - cte_importance(row)

\* _inner_search_name_cte
inner_search_name_cte(search, details, rows) ==
    LET Where(row) == cte_where(search, details, row)
        inner == SelectSeq(rows, Where)
        min_penalty == CHOOSE m \in {cte_score(search, inner[k]) : k \in DOMAIN inner} :
                          \A k \in DOMAIN inner : m <= cte_score(search, inner[k])
        Selected(row) == cte_score(search, row) < min_penalty + PreselectSlack
    IN  IF cte_preselects(search, details) /\ inner # <<>>
        THEN SelectSeq(inner, Selected)
        ELSE inner

\* The accuracy column of PlaceSearch.lookup
place_accuracy(search, details, row) ==
    search.penalty + row.penalty
    + (IF search.postcodes = {} THEN 0
       ELSE IF row.postcode \in search.postcodes THEN 0
       ELSE IF row.postcode_dist < 0 THEN PenaltyNoPostcode
       ELSE row.postcode_dist)
    + (IF details.viewbox /\ ~details.bounded_viewbox
       THEN IF row.in_viewbox THEN 0
            ELSE IF row.in_viewbox2 THEN PenaltyViewbox2
            ELSE PenaltyOutsideViewbox
       ELSE 0)

\* The children of a street row that the subqueries of PlaceSearch.lookup
\* aggregate: placex_hnr, interpol_hnr (_make_interpolation_subquery on
\* osmline) and tiger_hnr (on tiger).
placex_hnr(search, details, row) ==
    LET Matches(c) ==
            /\ c.table = "placex"
            /\ RegexpWord(search.housenumbers, c.housenumber)
            /\ ~c.linked
            /\ c.indexed
            /\ details.excluded # {} => c.place_id \notin details.excluded
            /\ search.qualifiers # {} => c.category \in search.qualifiers
    IN  SelectSeq(row.children, Matches)

make_interpolation_subquery(table, search, details, row) ==
    LET nums == numerals(search.housenumbers)
        Matches(c) ==
            /\ c.table = table
            /\ \E n \in DOMAIN nums :
                  /\ nums[n] \in c.startnumber..c.endnumber
                  /\ (nums[n] - c.startnumber) % c.step = 0
            /\ details.excluded # {} => exclude_places(c, details)
    IN  SelectSeq(row.children, Matches)

uses_interpolations(search) ==
    /\ numerals(search.housenumbers) # <<>>
    /\ search.qualifiers = {} \/ <<"place", "house">> \in search.qualifiers

interpol_hnr(search, details, row) ==
    IF uses_interpolations(search)
    THEN make_interpolation_subquery("osmline", search, details, row)
    ELSE <<>>

tiger_hnr(search, details, row) ==
    IF uses_interpolations(search) /\ row.country_code = "us"
    THEN make_interpolation_subquery("tiger", search, details, row)
    ELSE <<>>

\* ORDER BY case(placex_hnr 1, interpol_hnr 2, tiger_hnr 3, else 4)
hnr_class(search, details, row) ==
    IF placex_hnr(search, details, row) # <<>> THEN 1
    ELSE IF interpol_hnr(search, details, row) # <<>> THEN 2
    ELSE IF tiger_hnr(search, details, row) # <<>> THEN 3
    ELSE 4

\* Rows are ordered by two integer columns; accuracies stay below this.
SortBase == 100000

\* The rows PlaceSearch.lookup reads from the database.
place_rows(search, details, rows) ==
    LET cte == inner_search_name_cte(search, details, rows)
        Acc(row) == place_accuracy(search, details, row)
        First(row) == IF details.near THEN row.near_dist
                      ELSE Acc(row) - cte_importance(row)
        ordered == Values(SortByKey(
                      [k \in DOMAIN cte |->
                          [key |-> First(cte[k]) * SortBase + Acc(cte[k]),
                           val |-> cte[k]]]))
        Inner(row) == row.rank_address < MaxAddressRank
                      \/ RegexpWord(search.housenumbers, row.housenumber)
        inner == SelectSeq(ordered, Inner)
        unsort == Values(SortByKey(
                      [k \in DOMAIN inner |->
                          [key |-> hnr_class(search, details, inner[k]) * SortBase
                                   + Acc(inner[k]),
                           val |-> inner[k]]]))
        Plain(row) ==
            /\ ~row.linked
            /\ row.indexed
            /\ search.qualifiers # {} => row.category \in search.qualifiers
            /\ details.layers # NoLayers => filter_by_layer(row, details.layers)
    IN  Limit(IF search.housenumbers # <<>> THEN unsort
              ELSE SelectSeq(ordered, Plain),
              details.max_results)

\* A sub-result that takes the accuracy of its row whatever its
\* housenumber.
sub_result_unpenalised(search, source_table, child, housenumber, accuracy) ==
    [SearchResult(source_table, child) EXCEPT
        !.housenumber = housenumber, !.accuracy = accuracy]

\* _get_placex_housenumbers, _get_osmline and _get_tiger with the penalty
\* the loop of PlaceSearch.lookup gives to each sub-result.
sub_result(search, source_table, child, housenumber, accuracy) ==
    [SearchResult(source_table, child) EXCEPT
        !.housenumber = housenumber,
        !.accuracy = IF \E k \in DOMAIN housenumber :
                            \E h \in DOMAIN search.housenumbers :
                                housenumber[k] = search.housenumbers[h]
                     THEN accuracy
                     ELSE accuracy + PenaltyOtherHousenumber]

get_placex_housenumbers(search, children, accuracy) ==
    [k \in DOMAIN children |->
        sub_result(search, SOURCE_PLACEX, children[k], children[k].housenumber,
                   accuracy)]

\* One result for every numeral inside the range of the interpolation.
get_interpolated(search, source_table, children, accuracy) ==
    LET digits == SelectSeq(search.housenumbers, Numeral)
        Of(child) ==
            LET Inside(str) == ToInt(str) \in child.startnumber..child.endnumber
                inside == SelectSeq(digits, Inside)
            IN  [k \in DOMAIN inside |->
                    sub_result(search, source_table, child,
                               <<ToStr(ToInt(inside[k]))>>, accuracy)]
    IN  Flatten([c \in DOMAIN children |-> Of(children[c])])

\* The body of the result loop of PlaceSearch.lookup for one row.
place_row_results(search, details, row) ==
    LET result == [SearchResult(SOURCE_PLACEX, row) EXCEPT
                      !.accuracy = place_accuracy(search, details, row)]
        placex == placex_hnr(search, details, row)
        interpol == interpol_hnr(search, details, row)
        tiger == tiger_hnr(search, details, row)
        subs == IF placex # <<>>
                THEN get_placex_housenumbers(search, placex, result.accuracy)
                ELSE IF interpol # <<>>
                THEN get_interpolated(search, SOURCE_OSMLINE, interpol, result.accuracy)
                ELSE IF tiger # <<>>
                THEN get_interpolated(search, SOURCE_TIGER, tiger, result.accuracy)
                ELSE <<>>
        street == /\ details.excluded = {} \/ result.place_id \notin details.excluded
                  /\ search.qualifiers = {} \/ result.category \in search.qualifiers
                  /\ result.rank_address >= details.min_rank
    IN  IF search.housenumbers # <<>> /\ row.rank_address < MaxAddressRank
        THEN subs \o (IF street
                      THEN <<[result EXCEPT !.accuracy = @ + PenaltyNoHousenumber]>>
                      ELSE <<>>)
        ELSE <<result>>

\* PlaceSearch.lookup
place_lookup(search, details, rows) ==
    LET found == place_rows(search, details, rows)
    IN  Flatten([k \in DOMAIN found |-> place_row_results(search, details, found[k])])

\* The catalog rows of the runs of PlaceSearch: the k-th row has place_id
\* k; a house (rank 30) may carry the housenumber, a street (rank 26) may
\* have children in placex (place_id k + 2), in osmline (k + 4) and in
\* tiger (k + 6).
HouseNumber == <<"7">>

\* The housenumber written with a leading zero and as part of a range.
ZeroHouseNumber == <<"0", "7">>

HouseNumberRange == <<"7", "-", "9">>

PlacexChild(k, housenumber) == ChildRow("placex", k + 2, <<housenumber>>, 0, 0, 1)

OsmlineChild(k) == ChildRow("osmline", k + 4, <<>>, 1, 9, 2)

TigerChild(k) == ChildRow("tiger", k + 6, <<>>, 1, 9, 2)

PlaceChildren(k) ==
    {<<>>,
     <<PlacexChild(k, HouseNumber)>>,
     <<PlacexChild(k, HouseNumberRange)>>,
     <<OsmlineChild(k)>>,
     <<TigerChild(k)>>,
     <<PlacexChild(k, HouseNumber), OsmlineChild(k)>>,
     <<OsmlineChild(k), TigerChild(k)>>,
     <<PlacexChild(k, HouseNumberRange), OsmlineChild(k), TigerChild(k)>>}

PlaceRowsAt(k) ==
    {[PlacexRow(k, MaxAddressRank, <<"place", "house">>) EXCEPT
         !.housenumber = h, !.penalty = p] :
        h \in {<<>>, <<HouseNumber>>}, p \in {10, 70}}
    \cup {[PlacexRow(k, NearStreetRank, <<"highway", "residential">>) EXCEPT
              !.penalty = p, !.children = c, !.country_code = cc] :
            p \in {10, 70}, c \in PlaceChildren(k),
            cc \in {"de", "us"}}

PlaceCatalogs ==
    {<<>>} \cup {<<r>> : r \in PlaceRowsAt(1)}
    \cup {<<r1, r2>> : r1 \in PlaceRowsAt(1), r2 \in PlaceRowsAt(2)}

\* The requests of the runs of PlaceSearch.
PlaceDetails ==
    {SearchDetails(m, e, r[1], r[2]) :
        m \in 1..MaxResults, e \in {{}, {1}, {3}, {1, 3}},
        r \in {<<0, MaxAddressRank>>, <<27, MaxAddressRank>>, <<0, 25>>}}

PlaceSearches ==
    {PlaceSearchData(0, h) : h \in {<<>>, <<HouseNumber>>, <<ZeroHouseNumber>>}}

(***************************************************************************)
(* NearSearch                                                              *)
(***************************************************************************)
\* WeightedCategories and its siblings: a sequence of [value, penalty].
WeightedValues(weighted) == {weighted[k].value : k \in DOMAIN weighted}

\* get_penalty(value, default)
get_penalty(weighted, value, default) ==
    IF \E k \in DOMAIN weighted : weighted[k].value = value
    THEN weighted[CHOOSE k \in DOMAIN weighted : weighted[k].value = value].penalty
    ELSE default

\* base.sort(key=lambda r: (r.accuracy, r.rank_search))
near_sort(base) ==
    Values(SortByKey([k \in DOMAIN base |->
                         [key |-> base[k].accuracy * SortBase + base[k].rank_search,
                          val |-> base[k]]]))

\* min_rank and max_rank of NearSearch.lookup
near_min_rank(r0) ==
    IF r0.rank_address = 0 THEN 0
    ELSE IF r0.rank_address < NearStreetRank THEN 1
    ELSE NearStreetRank

near_max_rank_unclamped(r0) ==
    IF r0.rank_address = 0 THEN 0
    ELSE IF r0.rank_address < NearStreetRank
    THEN r0.rank_address + NearRankSpan
    ELSE MaxAddressRank

near_max_rank(r0) ==
    IF r0.rank_address = 0 THEN 0
    ELSE IF r0.rank_address < NearStreetRank
    THEN Min(NearMaxPlaceRank, r0.rank_address + NearRankSpan)
    ELSE MaxAddressRank

\* The filter of NearSearch.lookup on the sorted inner results.  A result
\* without bbox has area -1.
near_filter(sorted) ==
    LET r0 == sorted[1]
        max_accuracy == r0.accuracy + NearAccuracySlack
        Keep(r) ==
            /\ r.source_table = SOURCE_PLACEX
            /\ r.accuracy <= max_accuracy
            /\ r.area >= 0
            /\ r.area < NearMaxArea
            /\ r.rank_address >= near_min_rank(r0)
            /\ r.rank_address <= near_max_rank(r0)
    IN  SelectSeq(sorted, Keep)

\* baseids = [b.place_id for b in base[:5] if b.place_id]
near_baseids(base) ==
    LET top == Limit(base, NearMaxAnchors)
        Truthy(r) == r.place_id # NoPlace
        kept == SelectSeq(top, Truthy)
    IN  [k \in DOMAIN kept |-> kept[k].place_id]

\* The inner query of lookup_category: the distance of a row of the
\* category to the nearest anchor in reach, -1 when none is.  near holds
\* the placex rows the row is close to as [place_id, dist, reach].
category_dist(row, ids, has_table) ==
    LET reach == IF has_table THEN ReachClassTable ELSE ReachPlacex
        joined == {n \in row.near :
                      /\ \E k \in DOMAIN ids : ids[k] = n.place_id
                      /\ n.reach <= reach}
    IN  IF joined = {}
        THEN -1
        ELSE CHOOSE d \in {n.dist : n \in joined} : \A n \in joined : d <= n.dist

\* NearSearch.lookup_category: the results appended for one category.
lookup_category(search, details, catalog, ids, category, penalty) ==
    LET has_table == category \in catalog.class_tables
        Dist(row) == category_dist(row, ids, has_table)
        Where(row) ==
            /\ row.category = category
            /\ Dist(row) >= 0
            /\ row.rank_address >= details.min_rank
            /\ row.rank_address <= details.max_rank
            /\ details.countries # {} => row.country_code \in details.countries
            /\ details.excluded # {} => exclude_places(row, details)
            /\ details.layers # NoLayers => filter_by_layer(row, details.layers)
        found == SelectSeq(catalog.rows, Where)
        ordered == Values(SortByKey([k \in DOMAIN found |->
                                        [key |-> Dist(found[k]), val |-> found[k]]]))
        rows == Limit(ordered, details.max_results)
    IN  [k \in DOMAIN rows |->
            [SearchResult(SOURCE_PLACEX, rows[k]) EXCEPT
                !.accuracy = search.penalty + penalty]]

\* The loop of NearSearch.lookup over the categories from the k-th on.
RECURSIVE near_categories(_, _, _, _, _, _)
near_categories(search, details, catalog, ids, k, st) ==
    IF k > Len(search.categories)
    THEN st
    ELSE LET c == search.categories[k]
             st1 == [results |-> st.results \o lookup_category(search, details, catalog,
                                                              ids, c.value, c.penalty),
                     calls |-> st.calls + 1]
         IN  IF Len(st1.results) >= details.max_results
             THEN st1
             ELSE near_categories(search, details, catalog, ids, k + 1, st1)

\* NearSearch.lookup, for the results base of the inner search.  anchors
\* and calls record the ids handed to lookup_category and the number of
\* its calls.
near_lookup(search, details, base, catalog) ==
    LET filtered == near_filter(near_sort(base))
        baseids == near_baseids(filtered)
        st == near_categories(search, details, catalog, baseids, 1,
                              [results |-> <<>>, calls |-> 0])
    IN  IF base = <<>> \/ filtered = <<>>
        THEN [results |-> <<>>, anchors |-> <<>>, calls |-> 0]
        ELSE [results |-> st.results, anchors |-> baseids, calls |-> st.calls]

(***************************************************************************)
(* PoiSearch                                                               *)
(***************************************************************************)
\* PoiSearch.lookup: the rows of the search in placex.
poi_rows_placex(search, details, catalog) ==
    LET Where(row) ==
            /\ ~row.linked
            /\ row.in_near
            /\ row.category \in WeightedValues(search.qualifiers)
            /\ search.countries # {} => row.country_code \in search.countries
            /\ details.viewbox /\ details.bounded_viewbox => row.in_viewbox
        found == SelectSeq(catalog.rows, Where)
        ordered == Values(SortByKey([k \in DOMAIN found |->
                                        [key |-> found[k].near_dist, val |-> found[k]]]))
    IN  Limit(ordered, details.max_results)

\* The rows of one category from its class type table in the order of the
\* table.
poi_rows_class_table_unordered(search, details, catalog, category) ==
    LET Where(row) ==
            /\ row.category = category
            /\ details.viewbox /\ details.bounded_viewbox => row.in_viewbox
            /\ details.near /\ details.near_radius # NoRadius => row.in_near
            /\ search.countries # {} => row.country_code \in search.countries
        found == SelectSeq(catalog.rows, Where)
    IN  IF category \in catalog.class_tables
        THEN Limit(found, details.max_results)
        ELSE <<>>

\* PoiSearch.lookup: the rows of one category from its class type table.
poi_rows_class_table(search, details, catalog, category) ==
    LET Where(row) ==
            /\ row.category = category
            /\ details.viewbox /\ details.bounded_viewbox => row.in_viewbox
            /\ details.near /\ details.near_radius # NoRadius => row.in_near
            /\ search.countries # {} => row.country_code \in search.countries
        found == SelectSeq(catalog.rows, Where)
        ordered == IF details.near /\ details.near_radius # NoRadius
                   THEN Values(SortByKey([k \in DOMAIN found |->
                                   [key |-> found[k].near_dist, val |-> found[k]]]))
                   ELSE found
    IN  IF category \in catalog.class_tables
        THEN Limit(ordered, details.max_results)
        ELSE <<>>

\* PoiSearch.lookup
poi_lookup(search, details, catalog) ==
    LET rows ==
            IF /\ details.near
               /\ details.near_radius # NoRadius
               /\ details.near_radius < SmallNearRadius
            THEN poi_rows_placex(search, details, catalog)
            ELSE Flatten([k \in DOMAIN search.qualifiers |->
                             poi_rows_class_table(search, details, catalog,
                                                  search.qualifiers[k].value)])
    IN  [k \in DOMAIN rows |->
            [SearchResult(SOURCE_PLACEX, rows[k]) EXCEPT
                !.accuracy = search.penalty
                             + get_penalty(search.qualifiers, rows[k].category, 0)]]

(***************************************************************************)
(* CountrySearch                                                           *)
(***************************************************************************)
\* CountrySearch.lookup_in_country_table; a row of country_grid joined
\* with country_name has no place_id.
lookup_in_country_table(search, details, catalog) ==
    LET Where(row) ==
            /\ row.country_code \in WeightedValues(search.countries)
            /\ filter_by_area(row, details)
        rows == SelectSeq(catalog.grid, Where)
    IN  IF details.excluded # {}
        THEN <<>>
        ELSE [k \in DOMAIN rows |->
                 [SearchResult(SOURCE_COUNTRY, rows[k]) EXCEPT
                     !.accuracy = search.penalty
                                  + get_penalty(search.countries, rows[k].country_code,
                                                PenaltyOtherCountry)]]

\* CountrySearch.lookup with min_rank set to 5 whatever max_rank is.
country_lookup_min_rank_unclamped(search, details, catalog) ==
    LET Where(row) ==
            /\ row.country_code \in WeightedValues(search.countries)
            /\ row.rank_address = CountryRank
            /\ details.excluded # {} => exclude_places(row, details)
            /\ filter_by_area(row, details)
        rows == SelectSeq(catalog.rows, Where)
        placex == [k \in DOMAIN rows |->
                      [SearchResult(SOURCE_PLACEX, rows[k]) EXCEPT !.accuracy = search.penalty]]
        results == IF placex = <<>>
                   THEN lookup_in_country_table(search, details, catalog)
                   ELSE placex
    IN  [results |-> results,
         details |-> IF results # <<>>
                     THEN [details EXCEPT
                              !.min_rank = CountryMinRank,
                              !.max_rank = Min(CountryMaxRank, details.max_rank)]
                     ELSE details]

\* The rank window with max_rank set to 25 whatever it was.
country_rank_window_max_unclamped(details) ==
    [details EXCEPT !.min_rank = Min(CountryMinRank, details.max_rank),
                    !.max_rank = CountryMaxRank]

\* The rank window CountrySearch.lookup leaves in the details when it has
\* results: min_rank is set first, from the max_rank of the request.
country_rank_window(details) ==
    [details EXCEPT !.min_rank = Min(CountryMinRank, details.max_rank),
                    !.max_rank = Min(CountryMaxRank, details.max_rank)]

\* CountrySearch.lookup: the results and the details it leaves behind.
country_lookup(search, details, catalog) ==
    LET Where(row) ==
            /\ row.country_code \in WeightedValues(search.countries)
            /\ row.rank_address = CountryRank
            /\ details.excluded # {} => exclude_places(row, details)
            /\ filter_by_area(row, details)
        rows == SelectSeq(catalog.rows, Where)
        placex == [k \in DOMAIN rows |->
                      [SearchResult(SOURCE_PLACEX, rows[k]) EXCEPT
                          !.accuracy = search.penalty
                                       + get_penalty(search.countries,
                                                     rows[k].country_code,
                                                     PenaltyOtherCountry)]]
        results == IF placex = <<>>
                   THEN lookup_in_country_table(search, details, catalog)
                   ELSE placex
    IN  [results |-> results,
         details |-> IF results # <<>> THEN country_rank_window(details) ELSE details]

(***************************************************************************)
(* PostcodeSearch                                                          *)
(***************************************************************************)
\* The accuracy column of PostcodeSearch.lookup
postcode_accuracy(search, details, row) ==
    search.penalty
    + (IF details.viewbox /\ ~details.bounded_viewbox
       THEN IF row.in_viewbox THEN 0
            ELSE IF row.in_viewbox2 THEN PenaltyViewbox2
            ELSE PenaltyOutsideViewbox
       ELSE 0)
    + get_penalty(search.postcodes, row.postcode, PenaltyOtherPostcode)

\* PostcodeSearch.lookup.  parent_matches tells whether the parent of the
\* postcode matches the lookup of the search; boundary holds the postal
\* code boundary of placex with the postcode, if there is one.
postcode_lookup(search, details, catalog) ==
    LET Where(row) ==
            /\ row.postcode \in WeightedValues(search.postcodes)
            /\ filter_by_area(row, details)
            /\ search.countries # {} => row.country_code \in search.countries
            /\ details.excluded # {} => exclude_places(row, details)
            /\ search.lookups # <<>> => row.parent_matches
        found == SelectSeq(catalog.rows, Where)
        Acc(row) == postcode_accuracy(search, details, row)
        ordered == Values(SortByKey(
                      [k \in DOMAIN found |->
                          [key |-> (IF details.near THEN found[k].near_dist ELSE 0)
                                   * SortBase + Acc(found[k]),
                           val |-> found[k]]]))
        rows == Limit(ordered, details.max_results)
        Result(row) ==
            [(IF row.boundary # <<>>
              THEN SearchResult(SOURCE_PLACEX, row.boundary[1])
              ELSE SearchResult(SOURCE_POSTCODE, row))
             EXCEPT !.accuracy = Acc(row)]
        Kept(result) == result.place_id \notin details.excluded
    IN  SelectSeq([k \in DOMAIN rows |-> Result(rows[k])], Kept)

(***************************************************************************)
(* The requests, searches and catalog contents of the runs.                *)
(***************************************************************************)
Category(k) == <<"amenity", k>>

\* Runs of NearSearch about the rank window: inner results x (place 1)
\* and y (place 2) and one row of the category close to both.
RankSamples == {0, 1, 5, 6, 21, 22, 25, 26, 30}

InnerResult(place_id, source_table, accuracy, rank_address, rank_search, area) ==
    [SearchResult(source_table, PlacexRow(place_id, rank_address, <<"place", "city">>))
     EXCEPT !.accuracy = accuracy, !.rank_search = rank_search, !.area = area]

NearRow(place_id, k, near) ==
    [near |-> near] @@ PlacexRow(place_id, MaxAddressRank, Category(k))

WindowBases ==
    LET X == {InnerResult(1, SOURCE_PLACEX, a, r, s, 1) :
                 a \in {0, 60}, r \in RankSamples, s \in {4, 8}}
        Y == {InnerResult(2, t, a, r, 6, b) :
                 t \in {SOURCE_PLACEX, SOURCE_OSMLINE}, a \in {0, 50, 60},
                 r \in RankSamples, b \in {-1, 19, 20}}
    IN  {<<>>} \cup {<<x>> : x \in X} \cup {<<x, y>> : x \in X, y \in Y}

WindowInputs ==
    {[search |-> [penalty |-> 0,
                  categories |-> <<[value |-> Category(1), penalty |-> 10]>>],
      details |-> SearchDetails(1, {}, 0, MaxAddressRank),
      base |-> b,
      catalog |-> [class_tables |-> {Category(1)},
                   rows |-> <<NearRow(9, 1, {[place_id |-> 1, dist |-> 1, reach |-> 1],
                                             [place_id |-> 2, dist |-> 2, reach |-> 1]})>>]] :
        b \in WindowBases}

\* Runs of NearSearch about the anchors: n inner results that pass the
\* filter, but for the j-th, which has no place_id or is not from placex;
\* their accuracies rise or fall along the list.  Every result has a row of
\* the category close to it alone.
AnchorBase(n, j, kind, rising) ==
    [i \in 1..n |->
        InnerResult(IF i = j /\ kind = "noid" THEN NoPlace ELSE i,
                    IF i = j /\ kind = "other" THEN SOURCE_OSMLINE ELSE SOURCE_PLACEX,
                    IF rising THEN i ELSE n - i,
                    NearStreetRank, NearStreetRank, 1)]

AnchorInputs ==
    {[search |-> [penalty |-> 0,
                  categories |-> <<[value |-> Category(1), penalty |-> 10]>>],
      details |-> SearchDetails(MaxResults, {}, 0, MaxAddressRank),
      base |-> AnchorBase(n, j, kind, rising),
      catalog |-> [class_tables |-> {},
                   rows |-> [i \in 1..MaxBase |->
                                NearRow(10 + i, 1,
                                        {[place_id |-> i, dist |-> 1, reach |-> 1]})]]] :
        n \in (NearMaxAnchors - 1)..MaxBase, j \in 0..MaxBase,
        kind \in {"noid", "other"}, rising \in BOOLEAN}

\* Runs of NearSearch about the category lookup: one inner result (place
\* 1), up to MaxCategories categories, and counts[k] rows of category k
\* with place_ids 10 * k + 1 ..., the first closer than the others.
CategoryRows(k, n, far) ==
    [i \in 1..n |->
        NearRow(10 * k + i, k,
                {[place_id |-> 1, dist |-> i,
                  reach |-> IF far /\ i > 1 THEN ReachClassTable ELSE ReachPlacex]})]

CategoryInputs ==
    UNION {
        {[search |-> [penalty |-> 0,
                      categories |-> [k \in 1..nc |->
                                         [value |-> Category(k), penalty |-> 10 * k]]],
          details |-> SearchDetails(m, e, 0, r),
          base |-> <<InnerResult(1, SOURCE_PLACEX, 0, NearStreetRank, NearStreetRank, 1)>>,
          catalog |-> [class_tables |-> IF tables THEN {Category(k) : k \in 1..nc} ELSE {},
                       rows |-> Flatten([k \in 1..nc |-> CategoryRows(k, counts[k], ~tables)])]] :
            counts \in [1..nc -> 0..(MaxResults + 1)],
            m \in 1..MaxResults, e \in {{}, {11}},
            r \in {MaxAddressRank, NearMaxPlaceRank}, tables \in BOOLEAN} :
        nc \in 1..MaxCategories}

NearInputs == WindowInputs \cup AnchorInputs \cup CategoryInputs

\* Runs of PoiSearch: up to three rows of placex (place_ids 1, 2, 3) of
\* two categories, their distance to the near point rising or falling
\* along the table.
PoiRowsAt(k) ==
    {[PlacexRow(k, MaxAddressRank, Category(c)) EXCEPT !.in_near = n, !.near_dist = k] :
        c \in 1..2, n \in BOOLEAN}

PoiCatalogRows ==
    {<<>>} \cup {<<r>> : r \in PoiRowsAt(1)}
    \cup {<<r1, r2>> : r1 \in PoiRowsAt(1), r2 \in PoiRowsAt(2)}
    \cup {<<r1, r2, r3>> : r1 \in PoiRowsAt(1), r2 \in PoiRowsAt(2), r3 \in PoiRowsAt(3)}

PoiInputs ==
    {[search |-> [penalty |-> 0, countries |-> {},
                  qualifiers |-> [k \in 1..nq |->
                                     [value |-> Category(k), penalty |-> 10 * k]]],
      details |-> [SearchDetails(m, e, 0, MaxAddressRank) EXCEPT
                      !.near = (nr # NoRadius), !.near_radius = nr],
      catalog |-> [class_tables |-> t,
                   rows |-> [i \in DOMAIN rows |->
                                [rows[i] EXCEPT !.near_dist = IF far THEN 4 - @ ELSE @]]]] :
        nq \in 1..2, m \in 1..MaxResults, e \in {{}, {1}},
        nr \in {NoRadius, IndexNearRadius, 2 * SmallNearRadius},
        t \in {{}, {Category(2)}, {Category(1), Category(2)}},
        rows \in PoiCatalogRows, far \in BOOLEAN}

\* Runs of CountrySearch: up to two rows of placex and the country grid.
CountryRowsAt(k) ==
    {[PlacexRow(k, r, <<"boundary", "administrative">>) EXCEPT
         !.country_code = cc, !.in_viewbox = v] :
        r \in {CountryRank, 8}, cc \in {"de", "fr"}, v \in BOOLEAN}

GridRow(cc, v) ==
    [PlacexRow(NoPlace, CountryRank, <<"place", "country">>) EXCEPT
        !.country_code = cc, !.in_viewbox = v]

CountryInputs ==
    {[search |-> [penalty |-> 0,
                  countries |-> <<[value |-> "de", penalty |-> 0]>>],
      details |-> [SearchDetails(m, e, r[1], r[2]) EXCEPT
                      !.viewbox = vb, !.bounded_viewbox = vb],
      catalog |-> [rows |-> rows, grid |-> grid]] :
        m \in {1}, e \in {{}, {1}, {3}},
        r \in {<<0, MaxAddressRank>>, <<0, 20>>, <<0, 4>>, <<10, MaxAddressRank>>},
        vb \in BOOLEAN,
        rows \in {<<>>} \cup {<<r1>> : r1 \in CountryRowsAt(1)}
                 \cup {<<r1, r2>> : r1 \in CountryRowsAt(1), r2 \in CountryRowsAt(2)},
        grid \in {<<>>, <<GridRow("de", TRUE)>>, <<GridRow("de", FALSE)>>,
                  <<GridRow("fr", TRUE), GridRow("de", TRUE)>>}}

\* Runs of PostcodeSearch: up to two rows of the postcode table.
PostcodeRowsAt(k) ==
    {[boundary |-> b, parent_matches |-> TRUE]
     @@ [PlacexRow(k, 21, <<"place", "postcode">>) EXCEPT
            !.postcode = "12345", !.in_viewbox = v] :
        v \in BOOLEAN,
        b \in {<<>>, <<[PlacexRow(3, 21, <<"boundary", "postal_code">>) EXCEPT
                          !.postcode = "12345"]>>}}

PostcodeInputs ==
    {[search |-> [penalty |-> 0, countries |-> {}, lookups |-> <<>>,
                  postcodes |-> <<[value |-> "12345", penalty |-> 0]>>],
      details |-> [SearchDetails(m, e, 0, MaxAddressRank) EXCEPT !.viewbox = vb],
      catalog |-> [rows |-> rows]] :
        m \in 1..MaxResults, e \in {{}, {1}, {3}}, vb \in BOOLEAN,
        rows \in {<<>>} \cup {<<r1>> : r1 \in PostcodeRowsAt(1)}
                 \cup {<<r1, r2>> : r1 \in PostcodeRowsAt(1), r2 \in PostcodeRowsAt(2)}}

PlaceInputs ==
    {[search |-> s, details |-> d, catalog |-> [rows |-> rows]] :
        s \in PlaceSearches, d \in PlaceDetails, rows \in PlaceCatalogs}

\* Requests whose searches share one SearchDetails: the rank filter of the
\* request around the ranks CountrySearch sets, and for every search a few
\* catalogs of at most one row.  details, inner and base of a run are set
\* when it is looked up.
SharedRanks == {0, CountryRank, CountryMinRank, 10, CountryMaxRank, MaxAddressRank}

SharedDetails ==
    {SearchDetails(1, e, r[1], r[2]) :
        e \in {{}, {1}}, r \in {x \in SharedRanks \X SharedRanks : x[1] <= x[2]}}

SharedRun(kind, search, catalog) ==
    [kind |-> kind, search |-> search, catalog |-> catalog,
     details |-> <<>>, inner |-> <<>>, base |-> <<>>]

SharedRuns ==
    {SharedRun("country",
               [penalty |-> 0, countries |-> <<[value |-> "de", penalty |-> 0]>>],
               [rows |-> rows, grid |-> grid]) :
        rows \in {<<>>} \cup {<<r>> : r \in {x \in CountryRowsAt(1) : x.country_code = "de"}},
        grid \in {<<>>, <<GridRow("de", TRUE)>>}}
    \cup {SharedRun("postcode",
                    [penalty |-> 0, countries |-> {}, lookups |-> <<>>,
                     postcodes |-> <<[value |-> "12345", penalty |-> 0]>>],
                    [rows |-> rows]) :
            rows \in {<<>>} \cup {<<r>> : r \in PostcodeRowsAt(1)}}
    \cup {SharedRun("place", PlaceSearchData(0, <<>>), [rows |-> rows]) :
            rows \in {<<>>} \cup {<<r>> : r \in {x \in PlaceRowsAt(1) :
                                                  x.penalty = 10 /\ x.children = <<>>}}}
    \cup {SharedRun("poi",
                    [penalty |-> 0, countries |-> {},
                     qualifiers |-> <<[value |-> Category(1), penalty |-> 10]>>],
                    [class_tables |-> {}, rows |-> rows]) :
            rows \in {<<>>} \cup {<<r>> : r \in PoiRowsAt(1)}}

SharedNearRuns == {SharedRun("near", i.search, i.catalog) : i \in AnchorInputs}

\* The executor before a search is run.
SrchIdle ==
    [pc |-> "idle", kind |-> "", input |-> <<>>, results |-> <<>>,
     anchors |-> <<>>, calls |-> 0, lookups |-> 0, windows |-> 0,
     details |-> SearchDetails(1, {}, 0, MaxAddressRank)]

(***************************************************************************)
(* Database import (nominatim_db/clicmd/setup.py, SetupAll).               *)
(***************************************************************************)
\* The choices of --continue; NoContinue stands for None.
NoContinue == "none"

ContinueChoices == {"import-from-file", "load-data", "indexing", "db-postprocess"}

\* The stages of async_run, by what they call.
STAGE_SKELETON == "setup_database_skeleton"
STAGE_BASE_IMPORT == "_base_import"
STAGE_LOAD_DATA == "load_data"
STAGE_TOKENIZER == "_get_tokenizer"
STAGE_POSTCODES == "update_postcodes"
STAGE_INDEXING == "index_full"
STAGE_POSTPROCESS == "create_search_indices"
STAGE_FINALIZE == "_finalize_database"

\* args.continue_at in ('import-from-file', 'load-data', None)
before_indexing(continue_at) ==
    continue_at \in {"import-from-file", "load-data", NoContinue}

\* _get_tokenizer creating a tokenizer for every run.
get_tokenizer_always_created(continue_at) == "created"

\* _get_tokenizer: create_tokenizer or get_tokenizer_for_db
get_tokenizer(continue_at) ==
    IF before_indexing(continue_at) THEN "created" ELSE "loaded"

\* The import before async_run is called.  files tells whether
\* args.get_osm_file_list() is non-empty, result is "running", "0" for
\* return 0 or the exception raised.
ImportArgs(continue_at, prepare_database, files, no_updates) ==
    [pc |-> "start", continue_at |-> continue_at,
     prepare_database |-> prepare_database, files |-> files,
     no_updates |-> no_updates, executed |-> <<>>, tokenizer |-> "none",
     dropped |-> FALSE, result |-> "running"]

ImportIdle == [ImportArgs(NoContinue, FALSE, FALSE, FALSE) EXCEPT !.pc = "idle"]

(***************************************************************************)
(* Analyzer setup (ICUQueryAnalyzer.setup, create_query_analyzer) and the  *)
(* regex-replace preprocessor (query_preprocessing/regex_replace.py).      *)
(***************************************************************************)
\* Number of requests that set up an analyzer concurrently.
NumRequests == 2
\* Largest number of preprocessing rules of the configuration.
MaxRules == 2

Requests == 1..NumRequests

\* re.compile for patterns of literal characters and groups: it raises
\* re.error when a parenthesis is unbalanced.  depth is the number of
\* groups open before the i-th character.
RECURSIVE re_balanced(_, _, _)
re_balanced(pattern, i, depth) ==
    IF i > Len(pattern)
    THEN depth = 0
    ELSE IF pattern[i] = "("
    THEN re_balanced(pattern, i + 1, depth + 1)
    ELSE IF pattern[i] = ")"
    THEN depth > 0 /\ re_balanced(pattern, i + 1, depth - 1)
    ELSE re_balanced(pattern, i + 1, depth)

re_compiles(pattern) == re_balanced(pattern, 1, 0)

\* _GenericPreprocessing.__init__: the error it raises, "" when none.
\* replacements holds the {pattern, replace} items of the rule.
generic_preprocessing_init(rule) ==
    IF \E k \in DOMAIN rule.replacements : ~re_compiles(rule.replacements[k].pattern)
    THEN "re.error"
    ELSE ""

\* One round of the loop of _setup_preprocessing: the error raised for
\* the rule, "" when its preprocessor is created.
setup_rule(rule) ==
    IF ~rule.has_step
    THEN "UsageError"
    ELSE IF ~rule.step_is_str
    THEN "UsageError"
    ELSE IF rule.step = "regex_replace"
    THEN generic_preprocessing_init(rule)
    ELSE ""

\* _setup_preprocessing: the preprocessors created and the error that
\* ended the loop, "" when every rule was set up.
RECURSIVE setup_preprocessing(_, _)
setup_preprocessing(rules, preprocessors) ==
    IF rules = <<>>
    THEN [preprocessors |-> preprocessors, error |-> ""]
    ELSE IF setup_rule(Head(rules)) # ""
    THEN [preprocessors |-> preprocessors, error |-> setup_rule(Head(rules))]
    ELSE setup_preprocessing(Tail(rules), Append(preprocessors, Head(rules)))

\* A cache key of its own for every analyzer.
setup_cache_key_per_analyzer(p, name) == <<"ICUTOK", name, p>>

\* The (group, name) under which setup caches a rule object.
setup_cache_key(p, name) == <<"ICUTOK", name>>

\* SearchConnection.get_cached_value keeps one entry per key: pending
\* while the factory of the first caller runs, then the value.
CacheEntry(cache, key) ==
    IF \E e \in cache : e.key = key
    THEN CHOOSE e \in cache : e.key = key
    ELSE [key |-> key, state |-> "absent", value |-> <<>>]

CacheWith(cache, key, state, value) ==
    {e \in cache : e.key # key} \cup {[key |-> key, state |-> state, value |-> value]}

\* The rule objects setup caches, in the order it asks for them.
RuleObjects == <<"normalizer", "transliterator">>

\* An analyzer under construction.
NewAnalyzer ==
    [pc |-> "start", obj |-> 1, normalizer |-> <<>>, transliterator |-> <<>>,
     preprocessors |-> <<>>, error |-> "", returned |-> FALSE, waited |-> FALSE]

\* The rules of the configuration.
PatternSamples ==
    {<<"a">>, <<"(", "a", ")", "b">>, <<"(", "a">>, <<"a", ")">>}

RuleSamples ==
    {[has_step |-> FALSE, step_is_str |-> FALSE, step |-> "", replacements |-> <<>>],
     [has_step |-> TRUE, step_is_str |-> FALSE, step |-> "", replacements |-> <<>>],
     [has_step |-> TRUE, step_is_str |-> TRUE, step |-> "normalize", replacements |-> <<>>]}
    \cup {[has_step |-> TRUE, step_is_str |-> TRUE, step |-> "regex_replace",
           replacements |-> r] :
            r \in {<<>>} \cup {<<[pattern |-> p, replace |-> <<>>]>> : p \in PatternSamples}
                  \cup {<<[pattern |-> <<"a">>, replace |-> <<>>],
                          [pattern |-> <<"(", "a">>, replace |-> <<"b">>]>>}}

Configs == UNION {[1..n -> RuleSamples] : n \in 0..MaxRules}

\* Longest text of a phrase and largest number of phrases handed to a
\* preprocessor.
MaxTextLen == 2
MaxPhrases == 2
\* Longest text handed to normalize_text or given back by the normalizer.
MaxNormLen == 3

\* str.strip(chars)
RECURSIVE lstrip(_, _)
lstrip(text, chars) ==
    IF text # <<>> /\ Head(text) \in chars
    THEN lstrip(Tail(text), chars)
    ELSE text

RECURSIVE rstrip(_, _)
rstrip(text, chars) ==
    IF text # <<>> /\ text[Len(text)] \in chars
    THEN rstrip(SubSeq(text, 1, Len(text) - 1), chars)
    ELSE text

\* str.strip(chars) taking one character from each end only.
strip_one_each_end(text, chars) ==
    LET left == IF text # <<>> /\ Head(text) \in chars THEN Tail(text) ELSE text
    IN  IF left # <<>> /\ left[Len(left)] \in chars
        THEN SubSeq(left, 1, Len(left) - 1)
        ELSE left

strip(text, chars) == rstrip(lstrip(text, chars), chars)

Whitespace == {" "}

\* The characters a compiled pattern of literals and groups matches.
re_literal(pattern) ==
    LET Plain(c) == c \notin {"(", ")"}
    IN  SelectSeq(pattern, Plain)

\* pattern.sub(replace, text) from the i-th character of text on: the
\* leftmost non-overlapping matches are replaced; a pattern that matches
\* the empty string matches before every character and at the end.
RECURSIVE re_sub_from(_, _, _, _)
re_sub_from(literal, replace, text, i) ==
    IF i > Len(text)
    THEN IF literal = <<>> THEN replace ELSE <<>>
    ELSE IF literal = <<>>
    THEN replace \o <<text[i]>> \o re_sub_from(literal, replace, text, i + 1)
    ELSE IF /\ i + Len(literal) - 1 <= Len(text)
            /\ SubSeq(text, i, i + Len(literal) - 1) = literal
    THEN replace \o re_sub_from(literal, replace, text, i + Len(literal))
    ELSE <<text[i]>> \o re_sub_from(literal, replace, text, i + 1)

re_sub(pattern, replace, text) == re_sub_from(re_literal(pattern), replace, text, 1)

\* _GenericPreprocessing.split_phrase
RECURSIVE split_phrase(_, _)
split_phrase(compiled_patterns, phrase) ==
    IF compiled_patterns = <<>>
    THEN phrase
    ELSE split_phrase(Tail(compiled_patterns),
                      [phrase EXCEPT !.text = re_sub(Head(compiled_patterns).pattern,
                                                     Head(compiled_patterns).replace, @)])

\* The filter of __call__ keeping every phrase.
phrase_kept_nonempty(phrase) == phrase.text # <<>>

\* The filter of __call__: if p.text.strip()
phrase_kept(phrase) == strip(phrase.text, Whitespace) # <<>>

\* _GenericPreprocessing.__call__
preprocessing_call(compiled_patterns, phrases) ==
    LET mapped == [k \in DOMAIN phrases |-> split_phrase(compiled_patterns, phrases[k])]
    IN  SelectSeq(mapped, phrase_kept)

\* ICUQueryAnalyzer.normalize_text, for the text the normalizer gives.
normalize_text(transliterated) == strip(transliterated, {"-", ":", " "})

\* All strings of at most n of the characters.
RECURSIVE Strings(_, _)
Strings(chars, n) ==
    IF n = 0
    THEN {<<>>}
    ELSE Strings(chars, n - 1)
         \cup {Append(s, c) : s \in {x \in Strings(chars, n - 1) : Len(x) = n - 1},
                              c \in chars}

\* The phrases and the replacements of the runs of the preprocessor.
PhraseLists ==
    UNION {[1..n -> {[ptype |-> PHRASE_ANY, text |-> t] :
                        t \in Strings({"a", "b", " "}, MaxTextLen)}] :
              n \in 0..MaxPhrases}

Replacements ==
    {[pattern |-> <<"a">>, replace |-> <<>>],
     [pattern |-> <<"a">>, replace |-> <<" ">>],
     [pattern |-> <<"(", "a", ")", "b">>, replace |-> <<"a">>],
     [pattern |-> <<"b">>, replace |-> <<"a">>],
     [pattern |-> <<"(", ")">>, replace |-> <<"b">>]}

ReplacementLists == UNION {[1..n -> Replacements] : n \in 0..MaxRules}

\* The texts handed to normalize_text and given back by the normalizer.
NormTexts == Strings({"a", "-", ":", " "}, MaxNormLen)

PreIdle == [pc |-> "idle", compiled_patterns |-> <<>>, phrases |-> <<>>, result |-> <<>>]

NormIdle == [pc |-> "idle", text |-> <<>>, normalizer |-> {}, once |-> <<>>, twice |-> <<>>]

\* No analyzer is set up.
SetupIdle ==
    [config |-> <<>>, cache |-> {}, made |-> [n \in {"normalizer", "transliterator"} |-> 0],
     req |-> <<>>]

\* The test for the query end taking the last slot for the end as well.
at_query_end_or_last_slot(q, s) == end_pos(s) >= num_token_slots(q) - 1

\* _append_state_to_todo: newstate.end_pos == query.num_token_slots()
at_query_end(q, s) == end_pos(s) = num_token_slots(q)

(***************************************************************************)
(* yield_token_assignments                                                 *)
(***************************************************************************)
\* _append_state_to_todo for the result newstate of an advance.  The
\* record tells what happened: the state pushed on todo (push), whether
\* the state reached the query end (complete), the state after
\* recheck_sequence (checked) and the assignments yielded.
append_state_to_todo(q, tlist, newstate) ==
    LET nothing == [ttype |-> tlist.ttype, end |-> tlist.end, new |-> newstate,
                    complete |-> FALSE, checked |-> None, push |-> None,
                    yielded |-> <<>>]
    IN  IF newstate = None
        THEN nothing
        ELSE IF at_query_end(q, newstate[1])
        THEN LET checked == recheck_sequence(newstate[1])
             IN  [nothing EXCEPT
                    !.complete = TRUE,
                    !.checked = checked,
                    !.yielded = IF checked # None
                                THEN get_assignments(checked[1], q)
                                ELSE <<>>]
        ELSE IF ~is_final(newstate[1])
        THEN [nothing EXCEPT !.push = newstate]
        ELSE nothing

\* The body of the while loop for the popped state: one advance for every
\* token list starting at the node, then one for the partial token.
process_state(q, state) ==
    LET node == end_pos(state)
        lists == q.starting[node]
        explicit == [k \in 1..Len(lists) |->
                        append_state_to_todo(q, lists[k],
                            advance(state, lists[k].ttype, lists[k].end, TRUE,
                                    word_break_penalty(q, node)))]
        partial == IF q.partial[node]
                   THEN <<append_state_to_todo(q,
                            [ttype |-> TOKEN_PARTIAL, end |-> node + 1],
                            advance(state, TOKEN_PARTIAL, node + 1,
                                    q.btype[node] = BREAK_PHRASE,
                                    word_break_penalty(q, node)))>>
                   ELSE <<>>
    IN  explicit \o partial

RECURSIVE Pushes(_)
Pushes(trans) ==
    IF trans = <<>>
    THEN <<>>
    ELSE Head(trans).push \o Pushes(Tail(trans))

RECURSIVE CountYielded(_)
CountYielded(trans) ==
    IF trans = <<>>
    THEN 0
    ELSE Len(Head(trans).yielded) + CountYielded(Tail(trans))

initial_state(q) ==
    TokenSequence(<<>>, IF q.ptype[0] = PHRASE_ANY THEN 0 ELSE 1, 0)

(***************************************************************************)
(* The queries.                                                            *)
(***************************************************************************)
InnerBreaks == {BREAK_PHRASE, BREAK_SOFT_PHRASE, BREAK_WORD, BREAK_TOKEN}

PhraseTypes == {PHRASE_ANY, PHRASE_STREET}

\* Break types of the nodes 0..n: START, the breaks between terms, END.
BreakLayouts(n) ==
    {b \in [0..n -> InnerBreaks \cup {BREAK_START, BREAK_END}] :
        /\ b[0] = BREAK_START
        /\ b[n] = BREAK_END
        /\ \A i \in 1..(n - 1) : b[i] \in InnerBreaks}

\* Phrase types of the nodes: a node has the type of the phrase its term
\* belongs to, so the type changes at phrase breaks only.
PhraseLayouts(n, b) ==
    {p \in [0..n -> PhraseTypes] :
        /\ \A i \in 1..(n - 1) : b[i] # BREAK_PHRASE => p[i] = p[i - 1]
        /\ p[n] = p[n - 1]}

RECURSIVE ListsFrom(_, _, _)
ListsFrom(k, i, n) ==
    IF k > Len(ListTypes)
    THEN <<>>
    ELSE [e \in 1..(n - i) |-> [ttype |-> ListTypes[k], end |-> i + e]]
         \o ListsFrom(k + 1, i, n)

\* The full token graph: at every node a token list of every type for
\* every range starting there, and a partial token.
FullQuery(n, b, p, d) ==
    [n |-> n, btype |-> b, ptype |-> p,
     nsource |-> 1 + Cardinality({i \in 1..(n - 1) : b[i] = BREAK_PHRASE}),
     dir_penalty |-> d,
     starting |-> [i \in 0..n |-> ListsFrom(1, i, n)],
     partial |-> [i \in 0..n |-> i < n]]

FullQueriesOf(n, b) ==
    {FullQuery(n, b, p, d) :
        p \in PhraseLayouts(n, b), d \in {0 - DirPen, 0, DirPen}}

FullQueries ==
    UNION {UNION {FullQueriesOf(n, b) : b \in BreakLayouts(n)} :
              n \in 1..MaxSlots}

\* Long queries of one phrase that offer a partial token on every slot
\* and, with hnr, a housenumber token on the first slot.
LongQueries ==
    {[n |-> n,
      btype |-> [i \in 0..n |-> IF i = 0 THEN BREAK_START
                                ELSE IF i = n THEN BREAK_END
                                ELSE IF i = 1 THEN b ELSE BREAK_WORD],
      ptype |-> [i \in 0..n |-> PHRASE_ANY],
      nsource |-> IF b = BREAK_PHRASE THEN 2 ELSE 1,
      dir_penalty |-> 0,
      starting |-> [i \in 0..n |->
                      IF i = 0 /\ hnr
                      THEN <<[ttype |-> TOKEN_HOUSENUMBER, end |-> 1]>>
                      ELSE <<>>],
      partial |-> [i \in 0..n |-> i < n]] :
        n \in {MaxAddrTokens, MaxAddrTokens + 1, MaxAddrTokens + LongExtra},
        b \in {BREAK_WORD, BREAK_PHRASE}, hnr \in BOOLEAN}

\* Queries of single-slot phrases, the last one of one or two slots, that
\* offer a partial and a HOUSENUMBER token on every slot and, with ctry,
\* a COUNTRY token on the first slot.
RecheckQueries ==
    {[n |-> n,
      btype |-> [i \in 0..n |-> IF i = 0 THEN BREAK_START
                                ELSE IF i = n THEN BREAK_END
                                ELSE IF i = n - 1 THEN b
                                ELSE BREAK_PHRASE],
      ptype |-> [i \in 0..n |-> PHRASE_ANY],
      nsource |-> IF b = BREAK_PHRASE THEN n ELSE n - 1,
      dir_penalty |-> 0,
      starting |-> [i \in 0..n |->
                      (IF i = 0 /\ ctry
                       THEN <<[ttype |-> TOKEN_COUNTRY, end |-> 1]>>
                       ELSE <<>>)
                      \o (IF i < n
                          THEN <<[ttype |-> TOKEN_HOUSENUMBER, end |-> i + 1]>>
                          ELSE <<>>)],
      partial |-> [i \in 0..n |-> i < n]] :
        n \in (MaxSlots + 1)..RecheckSlots, ctry \in BOOLEAN,
        b \in {BREAK_PHRASE, BREAK_WORD}}

Queries == FullQueries \cup LongQueries \cup RecheckQueries

Init ==
    /\ query \in Queries
    /\ todo = <<initial_state(query)>>
    /\ last = [state |-> None, trans |-> <<>>]
    /\ nyielded = 0
    /\ tok = TokIdle
    /\ srch = SrchIdle
    /\ setup = SetupIdle
    /\ pre = PreIdle
    /\ norm = NormIdle
    /\ imp = ImportIdle

\* One round of the while loop of yield_token_assignments.
Step ==
    /\ todo # <<>>
    /\ last' = [state |-> Some(todo[Len(todo)]),
                trans |-> process_state(query, todo[Len(todo)])]
    /\ todo' = SubSeq(todo, 1, Len(todo) - 1) \o Pushes(last'.trans)
    /\ nyielded' = nyielded + CountYielded(last'.trans)
    /\ UNCHANGED <<query, tok, srch, setup, pre, norm, imp>>

Next == Step

Spec == Init /\ [][Next]_vars

\* The while loop goes on as long as todo is not empty: weak fairness of
\* Step, with ENABLED <<Step>>_vars written out as todo # <<>>.
SpecLive ==
    /\ Init
    /\ [][Next]_vars
    /\ ([]<>(todo = <<>>) \/ []<><<Step>>_vars)

\* analyze_query is handed the phrases of tok.source.
TokInit ==
    /\ tok \in {[pc |-> "start", source |-> s, rows |-> <<>>, calls |-> <<>>,
                  result |-> NoAnalysis] :
                    s \in TokInputs}
    /\ query = NoQuery
    /\ todo = <<>>
    /\ last = [state |-> None, trans |-> <<>>]
    /\ nyielded = 0
    /\ srch = SrchIdle
    /\ setup = SetupIdle
    /\ pre = PreIdle
    /\ norm = NormIdle
    /\ imp = ImportIdle

\* analyze_query, with the rows that lookup_in_db returns.
AnalyzeQuery ==
    /\ tok.pc = "start"
    /\ ~source_is_empty(tok.source)
    /\ \E rows \in RowSeqs(split_query(tok.source).words, MaxRows) :
          tok' = [tok EXCEPT !.pc = "done", !.rows = rows,
                             !.result = analyze_query(tok.source, rows)]
    /\ UNCHANGED <<query, todo, last, nyielded, srch, setup, pre, norm, imp>>

\* split_query is handed the phrases of tok.source.
SplitInit ==
    /\ tok \in {[pc |-> "start", source |-> s, rows |-> <<>>, calls |-> <<>>,
                  result |-> NoAnalysis] :
                    s \in LongSources}
    /\ query = NoQuery
    /\ todo = <<>>
    /\ last = [state |-> None, trans |-> <<>>]
    /\ nyielded = 0
    /\ srch = SrchIdle
    /\ setup = SetupIdle
    /\ pre = PreIdle
    /\ norm = NormIdle
    /\ imp = ImportIdle

\* split_query: the terms and the words dictionary are kept.
SplitQuery ==
    /\ tok.pc = "start"
    /\ ~source_is_empty(tok.source)
    /\ LET split == split_query(tok.source)
       IN  tok' = [tok EXCEPT !.pc = "split",
                              !.calls = Append(@, "split_query"),
                              !.result = [NoAnalysis EXCEPT !.parts = split.parts,
                                                            !.words = split.words,
                                                            !.created = split.nodes]]
    /\ UNCHANGED <<query, todo, last, nyielded, srch, setup, pre, norm, imp>>

SplitNext == SplitQuery

SpecSplit == SplitInit /\ [][SplitNext]_vars

\* add_extra_tokens is about to be called for the terms and nodes of a
\* query: tok.result.nodes are the nodes handed to it.
ExtraInit ==
    /\ tok \in {[pc |-> "looked", source |-> <<>>, rows |-> <<>>, calls |-> <<>>,
                  result |-> [NoAnalysis EXCEPT !.parts = q.parts, !.nodes = q.nodes]] :
                    q \in LookedQueries}
    /\ query = NoQuery
    /\ todo = <<>>
    /\ last = [state |-> None, trans |-> <<>>]
    /\ nyielded = 0
    /\ srch = SrchIdle
    /\ setup = SetupIdle
    /\ pre = PreIdle
    /\ norm = NormIdle
    /\ imp = ImportIdle

\* add_extra_tokens: tok.result.created are the nodes it leaves behind.
AddExtraTokens ==
    /\ tok.pc = "looked"
    /\ tok' = [tok EXCEPT !.pc = "extra",
                          !.calls = Append(@, "add_extra_tokens"),
                          !.result.created =
                              add_extra_tokens(tok.result.nodes, tok.result.parts, 0)]
    /\ UNCHANGED <<query, todo, last, nyielded, srch, setup, pre, norm, imp>>

ExtraNext == AddExtraTokens

SpecExtra == ExtraInit /\ [][ExtraNext]_vars

\* analyze_query is handed a source the preprocessors may have left
\* without phrases and runs call by call.
AnalyzeInit ==
    /\ tok \in {[pc |-> "start", source |-> s, rows |-> <<>>, calls |-> <<>>,
                  result |-> NoAnalysis] :
                    s \in {<<>>} \cup {<<p>> : p \in Phrases(MaxTerms)}}
    /\ query = NoQuery
    /\ todo = <<>>
    /\ last = [state |-> None, trans |-> <<>>]
    /\ nyielded = 0
    /\ srch = SrchIdle
    /\ setup = SetupIdle
    /\ pre = PreIdle
    /\ norm = NormIdle
    /\ imp = ImportIdle

\* if not query.source: return query.  The query has its start node only.
ReturnEmpty ==
    /\ tok.pc = "start"
    /\ source_is_empty(tok.source)
    /\ tok' = [tok EXCEPT !.pc = "done",
                          !.result.nodes = <<QueryNode(BREAK_START, PHRASE_ANY)>>]
    /\ UNCHANGED <<query, todo, last, nyielded, srch, setup, pre, norm, imp>>

\* lookup_in_db for the words of split_query, and the loop that adds the
\* tokens of the returned rows.
LookupInDb ==
    /\ tok.pc = "split"
    /\ \E rows \in RowSeqs(tok.result.words, MaxRows) :
          tok' = [tok EXCEPT !.pc = "looked", !.rows = rows,
                             !.calls = Append(@, "lookup_in_db"),
                             !.result.nodes =
                                 add_rows(tok.result.created, rows, tok.result.words)]
    /\ UNCHANGED <<query, todo, last, nyielded, srch, setup, pre, norm, imp>>

\* rerank_tokens on the nodes add_extra_tokens has left; the query is
\* returned.
RerankTokens ==
    /\ tok.pc = "extra"
    /\ LET ranked == rerank_tokens(tok.result.created)
       IN  tok' = [tok EXCEPT !.pc = "done",
                              !.calls = Append(@, "rerank_tokens"),
                              !.result.nodes = ranked.nodes,
                              !.result.adjust = ranked.adjust]
    /\ UNCHANGED <<query, todo, last, nyielded, srch, setup, pre, norm, imp>>

AnalyzeNext ==
    \/ ReturnEmpty
    \/ SplitQuery
    \/ LookupInDb
    \/ AddExtraTokens
    \/ RerankTokens

SpecAnalyze == AnalyzeInit /\ [][AnalyzeNext]_vars

TokNext == AnalyzeQuery

SpecTok == TokInit /\ [][TokNext]_vars

\* One search is run against the details of a request.
SearchInit ==
    /\ srch = [SrchIdle EXCEPT !.pc = "start"]
    /\ tok = TokIdle
    /\ query = NoQuery
    /\ todo = <<>>
    /\ last = [state |-> None, trans |-> <<>>]
    /\ nyielded = 0
    /\ setup = SetupIdle
    /\ pre = PreIdle
    /\ norm = NormIdle
    /\ imp = ImportIdle

\* The state after lookup has returned results for the input; details are
\* the details the search leaves behind.
Looked(kind, input, results, details) ==
    [pc |-> "done", kind |-> kind, input |-> input, results |-> results,
     anchors |-> <<>>, calls |-> 0, lookups |-> 1, windows |-> 0,
     details |-> details]

\* PlaceSearch.lookup
PlaceSearchLookup ==
    /\ srch.pc = "start"
    /\ \E inp \in PlaceInputs :
          srch' = Looked("place", inp,
                         place_lookup(inp.search, inp.details, inp.catalog.rows),
                         inp.details)
    /\ UNCHANGED <<query, todo, last, nyielded, tok, setup, pre, norm, imp>>

\* PoiSearch.lookup
PoiSearchLookup ==
    /\ srch.pc = "start"
    /\ \E inp \in PoiInputs :
          srch' = Looked("poi", inp,
                         poi_lookup(inp.search, inp.details, inp.catalog),
                         inp.details)
    /\ UNCHANGED <<query, todo, last, nyielded, tok, setup, pre, norm, imp>>

\* CountrySearch.lookup
CountrySearchLookup ==
    /\ srch.pc = "start"
    /\ \E inp \in CountryInputs :
          LET out == country_lookup(inp.search, inp.details, inp.catalog)
          IN  srch' = Looked("country", inp, out.results, out.details)
    /\ UNCHANGED <<query, todo, last, nyielded, tok, setup, pre, norm, imp>>

\* PostcodeSearch.lookup
PostcodeSearchLookup ==
    /\ srch.pc = "start"
    /\ \E inp \in PostcodeInputs :
          srch' = Looked("postcode", inp,
                         postcode_lookup(inp.search, inp.details, inp.catalog),
                         inp.details)
    /\ UNCHANGED <<query, todo, last, nyielded, tok, setup, pre, norm, imp>>

\* NearSearch.lookup
NearSearchLookup ==
    /\ srch.pc = "start"
    /\ \E inp \in NearInputs :
          LET out == near_lookup(inp.search, inp.details, inp.base, inp.catalog)
          IN  srch' = [Looked("near", inp, out.results, inp.details) EXCEPT
                          !.anchors = out.anchors, !.calls = out.calls]
    /\ UNCHANGED <<query, todo, last, nyielded, tok, setup, pre, norm, imp>>

SearchNext ==
    \/ PlaceSearchLookup
    \/ PoiSearchLookup
    \/ CountrySearchLookup
    \/ PostcodeSearchLookup
    \/ NearSearchLookup

SpecSearch == SearchInit /\ [][SearchNext]_vars

\* The searches of a request are run one after another against the one
\* SearchDetails object of the request, up to MaxShared of them.
SharedInit ==
    /\ srch \in {[SrchIdle EXCEPT !.pc = "shared", !.details = d] : d \in SharedDetails}
    /\ tok = TokIdle
    /\ query = NoQuery
    /\ todo = <<>>
    /\ last = [state |-> None, trans |-> <<>>]
    /\ nyielded = 0
    /\ setup = SetupIdle
    /\ pre = PreIdle
    /\ norm = NormIdle
    /\ imp = ImportIdle

\* lookup of a search other than NearSearch on the shared details: the
\* results and the details it leaves behind.  Only CountrySearch assigns
\* to the details.
shared_lookup(run, details) ==
    IF run.kind = "country"
    THEN country_lookup(run.search, details, run.catalog)
    ELSE [results |-> IF run.kind = "place"
                      THEN place_lookup(run.search, details, run.catalog.rows)
                      ELSE IF run.kind = "poi"
                      THEN poi_lookup(run.search, details, run.catalog)
                      ELSE postcode_lookup(run.search, details, run.catalog),
          details |-> details]

\* The state after the next search has returned results; windowed tells
\* whether CountrySearch has set the rank window in it.
Shared(run, results, details, windowed) ==
    [Looked(run.kind, [run EXCEPT !.details = srch.details], results, details) EXCEPT
        !.pc = "shared",
        !.lookups = srch.lookups + 1,
        !.windows = srch.windows + (IF windowed THEN 1 ELSE 0)]

\* lookup of a PlaceSearch, PoiSearch, CountrySearch or PostcodeSearch
SharedLookup(kind) ==
    /\ srch.pc = "shared"
    /\ srch.lookups < MaxShared
    /\ \E run \in {r \in SharedRuns : r.kind = kind} :
          LET out == shared_lookup(run, srch.details)
          IN  srch' = Shared(run, out.results, out.details,
                             kind = "country" /\ out.results # <<>>)
    /\ UNCHANGED <<query, todo, last, nyielded, tok, setup, pre, norm, imp>>

\* NearSearch.lookup awaits the lookup of its inner search, which is
\* handed the details of the request.
SharedInnerLookup ==
    /\ srch.pc = "shared"
    /\ srch.lookups < MaxShared
    /\ \E inner \in SharedRuns, near \in SharedNearRuns :
          LET base == shared_lookup(inner, srch.details)
          IN  srch' = [Shared([near EXCEPT !.inner = inner, !.base = base.results],
                              <<>>, base.details,
                              inner.kind = "country" /\ base.results # <<>>) EXCEPT
                          !.pc = "near"]
    /\ UNCHANGED <<query, todo, last, nyielded, tok, setup, pre, norm, imp>>

\* NearSearch.lookup behind the inner lookup: lookup_category reads the
\* details as the inner search has left them.
SharedNearLookup ==
    /\ srch.pc = "near"
    /\ LET out == near_lookup(srch.input.search, srch.details, srch.input.base,
                              srch.input.catalog)
       IN  srch' = [srch EXCEPT !.pc = "shared", !.results = out.results,
                                !.anchors = out.anchors, !.calls = out.calls]
    /\ UNCHANGED <<query, todo, last, nyielded, tok, setup, pre, norm, imp>>

SharedNext ==
    \/ SharedLookup("place")
    \/ SharedLookup("poi")
    \/ SharedLookup("country")
    \/ SharedLookup("postcode")
    \/ SharedInnerLookup
    \/ SharedNearLookup

SpecShared == SharedInit /\ [][SharedNext]_vars

\* Every request of the process sets up an analyzer with the same
\* configuration and the same cache.
SetupInit ==
    /\ setup \in {[SetupIdle EXCEPT !.config = c,
                                    !.req = [p \in Requests |-> NewAnalyzer]] :
                     c \in Configs}
    /\ tok = TokIdle
    /\ srch = SrchIdle
    /\ query = NoQuery
    /\ todo = <<>>
    /\ last = [state |-> None, trans |-> <<>>]
    /\ nyielded = 0
    /\ pre = PreIdle
    /\ norm = NormIdle
    /\ imp = ImportIdle

\* The analyzer after get_cached_value has returned value for the rule
\* object it asked for.
Assigned(a, value) ==
    [a EXCEPT ![RuleObjects[a.obj]] = value,
              !.obj = IF a.obj < Len(RuleObjects) THEN a.obj + 1 ELSE a.obj,
              !.pc = IF a.obj < Len(RuleObjects) THEN "start" ELSE "preprocessing"]

\* setup calls get_cached_value for the next rule object: it returns the
\* cached value, starts the factory, which suspends at get_property, or
\* suspends until the factory of another request has finished.
GetCachedValue(p) ==
    LET a == setup.req[p]
        key == setup_cache_key(p, RuleObjects[a.obj])
        entry == CacheEntry(setup.cache, key)
    IN  /\ a.pc = "start"
        /\ setup' =
             IF entry.state = "value"
             THEN [setup EXCEPT !.req[p] = Assigned(a, entry.value)]
             ELSE IF entry.state = "absent"
             THEN [setup EXCEPT !.cache = CacheWith(@, key, "pending", <<>>),
                                !.req[p].pc = "factory"]
             ELSE [setup EXCEPT !.req[p].pc = "waiting", !.req[p].waited = TRUE]
        /\ UNCHANGED <<query, todo, last, nyielded, tok, srch, pre, norm, imp>>

\* get_property returns the rules to _make_normalizer or
\* _make_transliterator, which creates the rule object; get_cached_value
\* stores and returns it.
GetProperty(p) ==
    LET a == setup.req[p]
        name == RuleObjects[a.obj]
        key == setup_cache_key(p, name)
        value == <<name, setup.made[name] + 1>>
    IN  /\ a.pc = "factory"
        /\ setup' = [setup EXCEPT !.made[name] = @ + 1,
                                  !.cache = CacheWith(@, key, "value", value),
                                  !.req[p] = Assigned(a, value)]
        /\ UNCHANGED <<query, todo, last, nyielded, tok, srch, pre, norm, imp>>

\* get_cached_value resumes once the value is there.
CachedValueReady(p) ==
    LET a == setup.req[p]
        entry == CacheEntry(setup.cache, setup_cache_key(p, RuleObjects[a.obj]))
    IN  /\ a.pc = "waiting"
        /\ entry.state = "value"
        /\ setup' = [setup EXCEPT !.req[p] = Assigned(a, entry.value)]
        /\ UNCHANGED <<query, todo, last, nyielded, tok, srch, pre, norm, imp>>

\* _setup_preprocessing and the rest of setup; create_query_analyzer
\* returns the analyzer unless an error was raised.
SetupPreprocessing(p) ==
    LET out == setup_preprocessing(setup.config, <<>>)
    IN  /\ setup.req[p].pc = "preprocessing"
        /\ setup' = [setup EXCEPT
                        !.req[p].preprocessors = out.preprocessors,
                        !.req[p].error = out.error,
                        !.req[p].returned = (out.error = ""),
                        !.req[p].pc = IF out.error = "" THEN "ready" ELSE "failed"]
        /\ UNCHANGED <<query, todo, last, nyielded, tok, srch, pre, norm, imp>>

SetupNext ==
    \/ \E p \in Requests : GetCachedValue(p)
    \/ \E p \in Requests : GetProperty(p)
    \/ \E p \in Requests : CachedValueReady(p)
    \/ \E p \in Requests : SetupPreprocessing(p)

SpecSetup == SetupInit /\ [][SetupNext]_vars

\* A preprocessor set up with compiled patterns is called with phrases.
PreInit ==
    /\ pre \in {[PreIdle EXCEPT !.pc = "start", !.compiled_patterns = c, !.phrases = ps] :
                   c \in ReplacementLists, ps \in PhraseLists}
    /\ norm = NormIdle
    /\ imp = ImportIdle
    /\ setup = SetupIdle
    /\ tok = TokIdle
    /\ srch = SrchIdle
    /\ query = NoQuery
    /\ todo = <<>>
    /\ last = [state |-> None, trans |-> <<>>]
    /\ nyielded = 0

\* _GenericPreprocessing.__call__
PreprocessingCall ==
    /\ pre.pc = "start"
    /\ pre' = [pre EXCEPT !.pc = "done",
                          !.result = preprocessing_call(pre.compiled_patterns, pre.phrases)]
    /\ UNCHANGED <<query, todo, last, nyielded, tok, srch, setup, norm, imp>>

PreNext == PreprocessingCall

SpecPre == PreInit /\ [][PreNext]_vars

\* normalize_text is called with a text; the normalizer is a function of
\* the rule set that is known as far as it has been applied.
NormInit ==
    /\ norm \in {[NormIdle EXCEPT !.pc = "start", !.text = t] : t \in NormTexts}
    /\ pre = PreIdle
    /\ imp = ImportIdle
    /\ setup = SetupIdle
    /\ tok = TokIdle
    /\ srch = SrchIdle
    /\ query = NoQuery
    /\ todo = <<>>
    /\ last = [state |-> None, trans |-> <<>>]
    /\ nyielded = 0

\* What the normalizer, applied so far as the pairs of known, may give
\* for the text.
Transliterations(known, text) ==
    IF \E e \in known : e[1] = text
    THEN {e[2] : e \in {x \in known : x[1] = text}}
    ELSE NormTexts

\* normalize_text(text)
NormalizeText ==
    /\ norm.pc = "start"
    /\ \E out \in Transliterations(norm.normalizer, norm.text) :
          norm' = [norm EXCEPT !.pc = "once",
                               !.normalizer = @ \cup {<<norm.text, out>>},
                               !.once = normalize_text(out)]
    /\ UNCHANGED <<query, todo, last, nyielded, tok, srch, setup, pre, imp>>

\* normalize_text(normalize_text(text))
NormalizeTextAgain ==
    /\ norm.pc = "once"
    /\ \E out \in Transliterations(norm.normalizer, norm.once) :
          norm' = [norm EXCEPT !.pc = "twice",
                               !.normalizer = @ \cup {<<norm.once, out>>},
                               !.twice = normalize_text(out)]
    /\ UNCHANGED <<query, todo, last, nyielded, tok, srch, setup, pre, imp>>

NormNext ==
    \/ NormalizeText
    \/ NormalizeTextAgain

SpecNorm == NormInit /\ [][NormNext]_vars

\* async_run is called with the arguments of imp.
ImportInit ==
    /\ imp \in {ImportArgs(c, p, f, u) :
                   c \in ContinueChoices \cup {NoContinue},
                   p \in BOOLEAN, f \in BOOLEAN, u \in BOOLEAN}
    /\ norm = NormIdle
    /\ pre = PreIdle
    /\ setup = SetupIdle
    /\ tok = TokIdle
    /\ srch = SrchIdle
    /\ query = NoQuery
    /\ todo = <<>>
    /\ last = [state |-> None, trans |-> <<>>]
    /\ nyielded = 0

\* The stage has been called and has returned.
Executed(stage) == [imp EXCEPT !.executed = Append(@, stage)]

\* async_run: setup_database_skeleton, return 0 with prepare_database
SetupSkeleton ==
    /\ imp.pc = "start"
    /\ imp' = IF imp.prepare_database \/ imp.continue_at = NoContinue
              THEN IF imp.prepare_database
                   THEN [Executed(STAGE_SKELETON) EXCEPT !.pc = "returned",
                                                         !.result = "0"]
                   ELSE [Executed(STAGE_SKELETON) EXCEPT !.pc = "base_import"]
              ELSE [imp EXCEPT !.pc = "base_import"]
    /\ UNCHANGED <<query, todo, last, nyielded, tok, srch, setup, pre, norm>>

\* async_run: _base_import, which raises UsageError without input files
BaseImport ==
    /\ imp.pc = "base_import"
    /\ imp' = IF imp.continue_at \in {NoContinue, "import-from-file"}
              THEN IF ~imp.files
                   THEN [imp EXCEPT !.pc = "raised", !.result = "UsageError"]
                   ELSE [Executed(STAGE_BASE_IMPORT) EXCEPT !.pc = "load_data"]
              ELSE [imp EXCEPT !.pc = "load_data"]
    /\ UNCHANGED <<query, todo, last, nyielded, tok, srch, setup, pre, norm>>

\* async_run: truncate_data_tables and load_data
LoadData ==
    /\ imp.pc = "load_data"
    /\ imp' = IF before_indexing(imp.continue_at)
              THEN [Executed(STAGE_LOAD_DATA) EXCEPT !.pc = "tokenizer"]
              ELSE [imp EXCEPT !.pc = "tokenizer"]
    /\ UNCHANGED <<query, todo, last, nyielded, tok, srch, setup, pre, norm>>

\* async_run: _get_tokenizer
GetTokenizer ==
    /\ imp.pc = "tokenizer"
    /\ imp' = [Executed(STAGE_TOKENIZER) EXCEPT
                  !.pc = "postcodes",
                  !.tokenizer = get_tokenizer(imp.continue_at)]
    /\ UNCHANGED <<query, todo, last, nyielded, tok, srch, setup, pre, norm>>

\* async_run: update_postcodes
UpdatePostcodes ==
    /\ imp.pc = "postcodes"
    /\ imp' = IF before_indexing(imp.continue_at)
              THEN [Executed(STAGE_POSTCODES) EXCEPT !.pc = "indexing"]
              ELSE [imp EXCEPT !.pc = "indexing"]
    /\ UNCHANGED <<query, todo, last, nyielded, tok, srch, setup, pre, norm>>

\* async_run: Indexer.index_full
IndexFull ==
    /\ imp.pc = "indexing"
    /\ imp' = IF before_indexing(imp.continue_at) \/ imp.continue_at = "indexing"
              THEN [Executed(STAGE_INDEXING) EXCEPT !.pc = "postprocess"]
              ELSE [imp EXCEPT !.pc = "postprocess"]
    /\ UNCHANGED <<query, todo, last, nyielded, tok, srch, setup, pre, norm>>

\* async_run: create_search_indices, create_country_names,
\* drop_update_tables, finalize_import and update_statistics
PostProcess ==
    /\ imp.pc = "postprocess"
    /\ imp' = [Executed(STAGE_POSTPROCESS) EXCEPT !.pc = "finalize",
                                                  !.dropped = imp.no_updates]
    /\ UNCHANGED <<query, todo, last, nyielded, tok, srch, setup, pre, norm>>

\* async_run: _finalize_database and return 0
FinalizeDatabase ==
    /\ imp.pc = "finalize"
    /\ imp' = [Executed(STAGE_FINALIZE) EXCEPT !.pc = "returned", !.result = "0"]
    /\ UNCHANGED <<query, todo, last, nyielded, tok, srch, setup, pre, norm>>

ImportNext ==
    \/ SetupSkeleton
    \/ BaseImport
    \/ LoadData
    \/ GetTokenizer
    \/ UpdatePostcodes
    \/ IndexFull
    \/ PostProcess
    \/ FinalizeDatabase

SpecImport == ImportInit /\ [][ImportNext]_vars

(***************************************************************************)
(* Properties of the token assignment enumerator.                          *)
(***************************************************************************)
\* The assignments yielded in the last round of the loop.
LastYielded == {a \in UNION {{e.yielded[k] : k \in DOMAIN e.yielded} :
                              e \in {last.trans[k] : k \in DOMAIN last.trans}} :
                   TRUE}

LastTrans == {last.trans[k] : k \in DOMAIN last.trans}

TodoStates == {todo[k] : k \in DOMAIN todo}

\* All ranges of an assignment, as a sequence.
AllRanges(a) ==
    (IF Has(a.name) THEN <<a.name>> ELSE <<>>)
    \o a.address
    \o (IF Has(a.housenumber) THEN <<a.housenumber>> ELSE <<>>)
    \o (IF Has(a.postcode) THEN <<a.postcode>> ELSE <<>>)
    \o (IF Has(a.country) THEN <<a.country>> ELSE <<>>)
    \o (IF Has(a.near_item) THEN <<a.near_item>> ELSE <<>>)
    \o (IF Has(a.qualifier) THEN <<a.qualifier>> ELSE <<>>)

\* The ranges are non-empty, lie in [0, n) and every slot of [0, n) is in
\* exactly one of them.
ExactCover(a, n) ==
    LET R == AllRanges(a)
    IN  /\ \A i \in DOMAIN R : 0 <= R[i].start /\ R[i].start < R[i].end
                               /\ R[i].end <= n
        /\ \A slot \in 0..(n - 1) :
              Cardinality({i \in DOMAIN R :
                              R[i].start <= slot /\ slot < R[i].end}) = 1

\* C1: the ranges of every emitted TokenAssignment (name, each address
\* range, housenumber, postcode, country, near_item, qualifier) are
\* pairwise disjoint and their union is exactly [0, num_token_slots).
C1_RangesCoverQuery ==
    \A a \in LastYielded : ExactCover(a, num_token_slots(query))

\* C1 witness: an assignment with a name, an address range, a housenumber
\* and a qualifier was emitted.
C1_Witness ==
    \E a \in LastYielded :
        /\ Has(a.name) /\ Has(a.housenumber) /\ Has(a.qualifier)
        /\ a.address # <<>>

SegmentsOfType(seq, ttype) == {i \in DOMAIN seq : seq[i].ttype = ttype}

AtMostOncePerType(seq) ==
    \A ttype \in SingleTypes : Cardinality(SegmentsOfType(seq, ttype)) <= 1

\* C2: in every sequence reachable through advance each of HOUSENUMBER,
\* POSTCODE, COUNTRY, NEAR_ITEM and QUALIFIER labels at most one segment;
\* so from_ranges never assigns a role twice and every emitted assignment
\* carries exactly the roles of its sequence.
C2_SingleRolesOnce ==
    /\ \A s \in TodoStates : AtMostOncePerType(s.seq)
    /\ \A e \in LastTrans :
          e.new # None =>
             /\ AtMostOncePerType(e.new[1].seq)
             /\ \A k \in DOMAIN e.yielded : \A ttype \in SingleTypes :
                   LET field == CASE ttype = TOKEN_HOUSENUMBER -> e.yielded[k].housenumber
                                  [] ttype = TOKEN_POSTCODE -> e.yielded[k].postcode
                                  [] ttype = TOKEN_COUNTRY -> e.yielded[k].country
                                  [] ttype = TOKEN_NEAR_ITEM -> e.yielded[k].near_item
                                  [] ttype = TOKEN_QUALIFIER -> e.yielded[k].qualifier
                   IN  Has(field) <=> SegmentsOfType(e.new[1].seq, ttype) # {}

\* C2 witness: a second segment of a type the sequence already has was
\* offered and refused, and a sequence with three of the roles was emitted.
C2_Witness ==
    /\ \E e \in LastTrans :
          /\ e.ttype \in SingleTypes
          /\ e.new = None
          /\ has_types(last.state[1], {e.ttype})
    /\ \E a \in LastYielded :
          Has(a.housenumber) /\ Has(a.postcode) /\ Has(a.country)

BoundaryRange(r, n) == Has(r) => (r.start = 0 \/ r.end = n)

\* C3: a country range and a near_item range of an emitted assignment
\* start at slot 0 or end at num_token_slots; a sequence of two or more
\* segments that ends in COUNTRY or NEAR_ITEM before the query end is
\* neither extended (pushed on todo) nor emitted.
C3_CountryNearItemAtBoundary ==
    /\ \A a \in LastYielded :
          /\ BoundaryRange(a.country, num_token_slots(query))
          /\ BoundaryRange(a.near_item, num_token_slots(query))
    /\ \A s \in TodoStates :
          ~(Len(s.seq) >= 2
            /\ s.seq[Len(s.seq)].ttype \in {TOKEN_COUNTRY, TOKEN_NEAR_ITEM})
    /\ \A e \in LastTrans :
          (/\ e.new # None
           /\ Len(e.new[1].seq) >= 2
           /\ e.new[1].seq[Len(e.new[1].seq)].ttype
                 \in {TOKEN_COUNTRY, TOKEN_NEAR_ITEM}
           /\ end_pos(e.new[1]) < num_token_slots(query))
          => (e.push = None /\ e.yielded = <<>>)

\* C3 witness: a sequence ending in COUNTRY after another segment and
\* before the query end was produced (and dropped), and an assignment
\* with a country at the query end was emitted.
C3_Witness ==
    /\ \E e \in LastTrans :
          /\ e.new # None
          /\ Len(e.new[1].seq) >= 2
          /\ e.ttype = TOKEN_COUNTRY
          /\ end_pos(e.new[1]) < num_token_slots(query)
    /\ \E e \in LastTrans : \E k \in DOMAIN e.yielded :
          /\ Has(e.yielded[k].country)
          /\ e.yielded[k].country.start > 0

\* C4: penalties never decrease: an accepted successor has at least the
\* penalty of its predecessor, recheck_sequence does not lower it and
\* every emitted assignment has at least the penalty the sequence had
\* when it reached the query end, for every sign of dir_penalty.
C4_PenaltyMonotone ==
    \A e \in LastTrans :
        e.new # None =>
           /\ e.new[1].penalty >= last.state[1].penalty
           /\ e.checked # None => e.checked[1].penalty >= e.new[1].penalty
           /\ \A k \in DOMAIN e.yielded :
                 e.yielded[k].penalty >= e.new[1].penalty

\* C4 witness: with a negative dir_penalty a right-to-left sequence has
\* emitted an assignment with a higher penalty than the sequence had, and
\* recheck_sequence has raised a penalty.
C4_Witness ==
    /\ query.dir_penalty < 0
    /\ \E e \in LastTrans :
          /\ e.checked # None
          /\ e.checked[1].direction = -1
          /\ e.checked[1].penalty > e.new[1].penalty
          /\ \E k \in DOMAIN e.yielded :
                e.yielded[k].penalty > e.checked[1].penalty

\* Number of token slots covered by PARTIAL segments.
PartialSlots(seq) == SumLen(AddressOf(seq))

OnlyPartialsOffered(q) ==
    \A i \in 0..q.n : q.starting[i] = <<>>

\* C6: no assignment is emitted from a completed sequence whose PARTIAL
\* segments cover more than 50 slots, a sequence of PARTIAL segments
\* covering exactly 50 slots is emitted, and a query of more than 50
\* slots that offers only partial tokens yields no assignment at all.
C6_AddressTokenLimit ==
    /\ \A e \in LastTrans :
          /\ (e.new # None /\ PartialSlots(e.new[1].seq) > MaxAddrTokens)
                => e.yielded = <<>>
          /\ (/\ e.new # None
              /\ e.complete
              /\ PartialSlots(e.new[1].seq) = MaxAddrTokens
              /\ \A i \in DOMAIN e.new[1].seq :
                    e.new[1].seq[i].ttype = TOKEN_PARTIAL)
                => e.yielded # <<>>
    /\ (query.n > MaxAddrTokens /\ OnlyPartialsOffered(query)) => nyielded = 0

\* C6 witness: a query of 60 slots with partial tokens only was
\* enumerated to its end and its completed sequence, which passed
\* recheck_sequence, was discarded.  C6_WitnessLimit: a completed
\* sequence with a housenumber and exactly 50 partial slots was emitted.
C6_WitnessLong ==
    /\ query.n = MaxAddrTokens + LongExtra
    /\ OnlyPartialsOffered(query)
    /\ todo = <<>>
    /\ nyielded = 0
    /\ \E e \in LastTrans :
          /\ e.complete
          /\ e.checked # None
          /\ PartialSlots(e.new[1].seq) = query.n
          /\ e.yielded = <<>>

C6_WitnessLimit ==
    \E e \in LastTrans :
        /\ e.complete
        /\ PartialSlots(e.new[1].seq) = MaxAddrTokens
        /\ Has(LastOfType(e.new[1].seq, TOKEN_HOUSENUMBER))
        /\ e.yielded # <<>>

(***************************************************************************)
(* Claims about the query analyzer.                                        *)
(***************************************************************************)
\* All tokens of the analysed query: those of the token lists and the
\* partial tokens.
AllTokens(nodes) ==
    UNION {UNION {{nodes[i].starting[k].tokens[t] :
                      t \in DOMAIN nodes[i].starting[k].tokens} :
                  k \in DOMAIN nodes[i].starting} : i \in DOMAIN nodes}
    \cup UNION {{nodes[i].partial[t] : t \in DOMAIN nodes[i].partial} :
                   i \in DOMAIN nodes}

TokensNonNegative ==
    \A token \in AllTokens(tok.result.nodes) : token.penalty >= 0

AdjustmentsNonNegative ==
    \A a \in DOMAIN tok.result.adjust : tok.result.adjust[a].amount >= 0

\* C5: once analyze_query has created the catalog tokens, added the
\* synthetic tokens and reranked, every token has a penalty >= 0 and every
\* adjustment rerank_tokens applied is >= 0.
C5_PenaltiesNonNegative ==
    tok.pc = "done" => TokensNonNegative /\ AdjustmentsNonNegative

(***************************************************************************)
(* Claims about the database searches.                                     *)
(***************************************************************************)
\* lookup of the search of the given kind has returned.
Returned(kind) == srch.pc = "done" /\ srch.kind = kind

\* No result has a place_id of details.excluded.
NoExcludedResult ==
    \A k \in DOMAIN srch.results :
        srch.results[k].place_id \notin srch.input.details.excluded

\* C7: no result returned by PlaceSearch.lookup has a place_id contained in
\* details.excluded, searches with housenumbers included.
C7_PlaceSearchExcludes == Returned("place") => NoExcludedResult

\* C8: no result returned by PoiSearch.lookup, CountrySearch.lookup,
\* PostcodeSearch.lookup or NearSearch.lookup has a place_id contained in
\* details.excluded.
C8_OtherSearchesExclude ==
    \A kind \in {"poi", "country", "postcode", "near"} :
        Returned(kind) => NoExcludedResult

\* C9: NearSearch.lookup returns at most details.max_results results, for
\* any number of categories and any catalog content.
C9_NearSearchLimit ==
    Returned("near") => Len(srch.results) <= srch.input.details.max_results

\* r sorts before s by (accuracy, rank_search).
SortsBefore(r, s) ==
    \/ r.accuracy < s.accuracy
    \/ r.accuracy = s.accuracy /\ r.rank_search < s.rank_search

\* The inner results that qualify as anchors, with r0 the inner result
\* that is minimal by (accuracy, rank_search).
Qualifying(base) ==
    LET r0 == base[CHOOSE k \in DOMAIN base :
                      \A j \in DOMAIN base : j # k => SortsBefore(base[k], base[j])]
        lo == IF r0.rank_address = 0 THEN 0
              ELSE IF r0.rank_address <= 25 THEN 1 ELSE 26
        hi == IF r0.rank_address = 0 THEN 0
              ELSE IF r0.rank_address <= 25
              THEN (IF r0.rank_address + 4 < 25 THEN r0.rank_address + 4 ELSE 25)
              ELSE 30
    IN  {k \in DOMAIN base :
            /\ base[k].source_table = SOURCE_PLACEX
            /\ base[k].accuracy <= r0.accuracy + 50
            /\ base[k].area >= 0
            /\ base[k].area < 20
            /\ base[k].rank_address \in lo..hi}

\* The qualifying inner results that at most four qualifying ones sort
\* before.
FirstFive(base) ==
    {k \in Qualifying(base) :
        Cardinality({j \in Qualifying(base) : SortsBefore(base[j], base[k])}) < 5}

\* C10: the anchors passed to the category lookup are the place_ids of the
\* first five inner results, in the order of (accuracy, rank_search), that
\* come from PLACEX, have accuracy <= r0.accuracy + 0.5, bbox area < 20 and
\* rank_address inside window(r0.rank_address); without inner results or
\* without a qualifying one no category lookup is executed and the result
\* is empty.
C10_NearSearchAnchors ==
    Returned("near") =>
        LET base == srch.input.base
        IN  IF base = <<>> \/ Qualifying(base) = {}
            THEN srch.calls = 0 /\ srch.results = <<>>
            ELSE /\ srch.calls > 0
                 /\ Len(srch.anchors) <= 5
                 /\ {srch.anchors[a] : a \in DOMAIN srch.anchors}
                    = {base[k].place_id : k \in FirstFive(base)} \ {NoPlace}
                 /\ \A a, b \in DOMAIN srch.anchors :
                       a < b =>
                          \E i, j \in FirstFive(base) :
                              /\ base[i].place_id = srch.anchors[a]
                              /\ base[j].place_id = srch.anchors[b]
                              /\ SortsBefore(base[i], base[j])

\* NearSearch has looked up a category around five anchors although more
\* than five inner results qualified.
C10_Witness ==
    /\ Returned("near")
    /\ srch.calls > 0
    /\ Len(srch.anchors) = 5
    /\ Cardinality(Qualifying(srch.input.base)) > 5

\* C11: CountrySearch.lookup applies the country rank window to the details
\* exactly when it returns a result: then min_rank = min(5, old max_rank)
\* and max_rank = min(25, old max_rank), 5 and 25 for the default max_rank
\* of 30; without a result min_rank and max_rank are unchanged.
C11_CountryRankWindow ==
    Returned("country") =>
        LET old == srch.input.details
            lo == IF old.max_rank < 5 THEN old.max_rank ELSE 5
            hi == IF old.max_rank < 25 THEN old.max_rank ELSE 25
        IN  /\ srch.results # <<>> =>
                  /\ srch.details.min_rank = lo
                  /\ srch.details.max_rank = hi
                  /\ old.max_rank = 30 =>
                        srch.details.min_rank = 5 /\ srch.details.max_rank = 25
            /\ srch.results = <<>> =>
                  /\ srch.details.min_rank = old.min_rank
                  /\ srch.details.max_rank = old.max_rank

\* CountrySearch has returned a result for details with a max_rank below
\* the country window.
C11_Witness ==
    /\ Returned("country")
    /\ srch.results # <<>>
    /\ srch.input.details.max_rank < 5
    /\ srch.details.min_rank = srch.input.details.max_rank

(***************************************************************************)
(* Reading direction and housenumbers.                                     *)
(***************************************************************************)
\* The query consists of a single untyped phrase.
SinglePhraseAny(q) ==
    /\ q.nsource = 1
    /\ \A i \in 0..q.n : q.ptype[i] = PHRASE_ANY

\* The sequence is a housenumber on the first slot followed by partials.
HnrFirst(seq, n) ==
    seq = <<TypedRange(TOKEN_HOUSENUMBER, TokenRange(0, 1)),
            TypedRange(TOKEN_PARTIAL, TokenRange(1, n))>>

\* The sequence is partials followed by a housenumber on the last slot.
HnrLast(seq, n) ==
    seq = <<TypedRange(TOKEN_PARTIAL, TokenRange(0, n - 1)),
            TypedRange(TOKEN_HOUSENUMBER, TokenRange(n - 1, n))>>

\* The sequences completed in the last round that passed recheck_sequence.
LastCompleted == {e \in LastTrans : e.complete /\ e.checked # None}

\* C12: in a single untyped phrase a completed sequence of a housenumber on
\* the first slot followed by partials has direction +1, and a completed
\* sequence of partials followed by a housenumber on the last slot has
\* direction -1.
C12_DirectionFollowsHousenumber ==
    SinglePhraseAny(query) =>
        \A e \in LastCompleted :
            /\ HnrFirst(e.checked[1].seq, query.n) => e.checked[1].direction = 1
            /\ HnrLast(e.checked[1].seq, query.n) => e.checked[1].direction = -1

\* C12 as the enumerator has it: the housenumber on the first slot gives
\* direction +1; the housenumber on the last slot behind the partials of
\* the phrase leaves direction 0, and the left-to-right reading with the
\* partials as name is emitted without a direction penalty.
C12_HousenumberDirection ==
    SinglePhraseAny(query) =>
        \A e \in LastCompleted :
            /\ HnrFirst(e.checked[1].seq, query.n) => e.checked[1].direction = 1
            /\ HnrLast(e.checked[1].seq, query.n) =>
                  /\ e.checked[1].direction = 0
                  /\ \E k \in DOMAIN e.yielded :
                        /\ e.yielded[k].name = TokenRange(0, query.n - 1)
                        /\ e.yielded[k].address = <<>>
                        /\ e.yielded[k].housenumber = TokenRange(query.n - 1, query.n)
                        /\ e.yielded[k].penalty = e.checked[1].penalty

\* A sequence of three partial slots and a housenumber on the last slot of
\* a single untyped phrase was completed, with a direction penalty of the
\* query that favours the right-to-left reading.
C12_Witness ==
    /\ SinglePhraseAny(query)
    /\ query.n = 4
    /\ query.dir_penalty < 0
    /\ \E e \in LastCompleted :
          HnrLast(e.checked[1].seq, query.n) /\ e.yielded # <<>>

(***************************************************************************)
(* Country-only queries.                                                   *)
(***************************************************************************)
\* The token graph offers a COUNTRY token list covering the whole query.
OffersCountryOverAll(q) ==
    \E k \in DOMAIN q.starting[0] :
        q.starting[0][k] = [ttype |-> TOKEN_COUNTRY, end |-> num_token_slots(q)]

\* The assignment has the country as its sole role.
CountryOnly(a) ==
    /\ Has(a.country)
    /\ ~Has(a.name) /\ a.address = <<>> /\ ~Has(a.housenumber)
    /\ ~Has(a.postcode) /\ ~Has(a.near_item) /\ ~Has(a.qualifier)

\* The round just run is the first one: it popped the initial state.
FirstRound == last.state # None /\ last.state[1].seq = <<>>

\* C13: for a query whose token graph offers a COUNTRY token list covering
\* [0, num_token_slots), an assignment with the country as its sole role
\* is emitted (in the first round of the loop), whatever the phrase type
\* of the first phrase.
C13_CountryOnlyAssignment ==
    FirstRound /\ OffersCountryOverAll(query) =>
        \E a \in LastYielded :
            CountryOnly(a) /\ a.country = TokenRange(0, num_token_slots(query))

\* The country-only assignment was emitted for a query of several slots
\* whose first phrase is typed.
C13_Witness ==
    /\ FirstRound
    /\ OffersCountryOverAll(query)
    /\ query.n > 1
    /\ query.ptype[0] # PHRASE_ANY
    /\ \E a \in LastYielded : CountryOnly(a)

(***************************************************************************)
(* Housenumber and partial tokens on one position.                         *)
(***************************************************************************)
\* The HOUSENUMBER tokens and the PARTIAL tokens of the slot [i, i + 1).
HousenumbersAt(nodes, i) ==
    UNION {{nodes[i + 1].starting[k].tokens[t] :
               t \in DOMAIN nodes[i + 1].starting[k].tokens} :
           k \in {j \in DOMAIN nodes[i + 1].starting :
                     /\ nodes[i + 1].starting[j].ttype = TOKEN_HOUSENUMBER
                     /\ nodes[i + 1].starting[j].end = i + 1}}

PartialsAt(nodes, i) ==
    {nodes[i + 1].partial[t] : t \in DOMAIN nodes[i + 1].partial}

\* The token is the one add_extra_tokens creates.
Synthetic(token) == token.token = 0

Slots == 0..(Len(tok.result.parts) - 1)

\* The rows of the given type that lookup_in_db returned for the term of
\* slot i.
RowsFor(i, type) ==
    {k \in DOMAIN tok.rows :
        /\ tok.rows[k].type = type
        /\ tok.rows[k].word_token = tok.result.parts[i + 1].token}

Malformed(config) ==
    \E k \in DOMAIN config :
        \/ ~config[k].has_step
        \/ ~config[k].step_is_str
        \/ /\ config[k].step = "regex_replace"
           /\ \E r \in DOMAIN config[k].replacements :
                 ~re_compiles(config[k].replacements[r].pattern)

\* setup of the request has ended.
SetupEnded(p) == setup.req[p].pc \in {"ready", "failed"}

\* C15: with a malformed preprocessing configuration setup, and so
\* create_query_analyzer, fails with UsageError and no analyzer is
\* returned.
C15_SetupUsageError ==
    \A p \in DOMAIN setup.req :
        SetupEnded(p) /\ Malformed(setup.config) =>
            /\ setup.req[p].pc = "failed"
            /\ setup.req[p].error = "UsageError"
            /\ ~setup.req[p].returned

RECURSIVE Replaced(_, _)
Replaced(text, n) ==
    IF n = 0
    THEN text
    ELSE re_sub(pre.compiled_patterns[n].pattern, pre.compiled_patterns[n].replace,
                Replaced(text, n - 1))

ReplacedPhrase(k) ==
    [ptype |-> pre.phrases[k].ptype,
     text |-> Replaced(pre.phrases[k].text, Len(pre.compiled_patterns))]

\* The result consists of the replaced phrases with the given indices, in
\* the order of the indices.
ResultIsSelection(kept) ==
    /\ Len(pre.result) = Cardinality(kept)
    /\ \A k \in kept :
          pre.result[Cardinality({j \in kept : j <= k})] = ReplacedPhrase(k)

\* C17: the preprocessor returns the phrases in their original order, each
\* with all (pattern, replace) pairs applied in configuration order,
\* omitting the phrases whose resulting text is empty and keeping every
\* other phrase; no phrase of the output has an empty text.
C17_RegexReplaceKeepsNonEmpty ==
    pre.pc = "done" =>
        /\ ResultIsSelection({k \in DOMAIN pre.phrases : ReplacedPhrase(k).text # <<>>})
        /\ \A j \in DOMAIN pre.result : pre.result[j].text # <<>>

\* C17 as the preprocessor has it: the phrases omitted are those whose
\* resulting text is empty or consists of whitespace only.
C17_RegexReplaceKeepsNonBlank ==
    pre.pc = "done" =>
        /\ ResultIsSelection({k \in DOMAIN pre.phrases :
                                 \E c \in DOMAIN ReplacedPhrase(k).text :
                                     ReplacedPhrase(k).text[c] # " "})
        /\ \A j \in DOMAIN pre.result : pre.result[j].text # <<>>

\* Two replacements whose order matters were applied to two phrases; the
\* first became whitespace only and was omitted, the second was kept.
C17_Witness ==
    /\ pre.pc = "done"
    /\ Len(pre.compiled_patterns) = 2
    /\ Len(pre.phrases) = 2
    /\ Replaced(pre.phrases[2].text, 2)
          # re_sub(pre.compiled_patterns[1].pattern, pre.compiled_patterns[1].replace,
                   re_sub(pre.compiled_patterns[2].pattern,
                          pre.compiled_patterns[2].replace, pre.phrases[2].text))
    /\ ReplacedPhrase(1).text = <<" ">>
    /\ pre.result = <<ReplacedPhrase(2)>>

PoiNearReturned ==
    /\ Returned("poi")
    /\ srch.input.details.near
    /\ srch.input.details.near_radius # NoRadius

\* The row of placex of the k-th result.
PoiRowOf(k) ==
    LET rows == srch.input.catalog.rows
    IN  rows[CHOOSE i \in DOMAIN rows : rows[i].place_id = srch.results[k].place_id]

\* Position of the category of the k-th result among the qualifiers.
QualifierOf(k) ==
    LET q == srch.input.search.qualifiers
    IN  CHOOSE i \in DOMAIN q : q[i].value = srch.results[k].category

\* Every result is a row of placex of one of the qualifiers within the
\* radius, of one of the countries if any are given and inside a bounded
\* viewbox.
PoiResultsMatch ==
    \A k \in DOMAIN srch.results :
        /\ \E i \in DOMAIN srch.input.catalog.rows :
              srch.input.catalog.rows[i].place_id = srch.results[k].place_id
        /\ \E i \in DOMAIN srch.input.search.qualifiers :
              srch.input.search.qualifiers[i].value = PoiRowOf(k).category
        /\ PoiRowOf(k).in_near
        /\ srch.input.search.countries # {} =>
              PoiRowOf(k).country_code \in srch.input.search.countries
        /\ srch.input.details.viewbox /\ srch.input.details.bounded_viewbox =>
              PoiRowOf(k).in_viewbox

TypesOf(seq) == [i \in DOMAIN seq |-> seq[i].ttype]

\* The advances with a QUALIFIER token list of the last round, when the
\* popped sequence has no QUALIFIER.
QualifierAdvances ==
    IF last.state # None /\ ~has_types(last.state[1], {TOKEN_QUALIFIER})
    THEN {e \in LastTrans : e.ttype = TOKEN_QUALIFIER}
    ELSE {}

\* The sequences a QUALIFIER may follow in a left-to-right reading.
QualifierPrefixes ==
    {<<>>, <<TOKEN_PARTIAL>>, <<TOKEN_NEAR_ITEM>>, <<TOKEN_NEAR_ITEM, TOKEN_PARTIAL>>}

\* The QUALIFIER rule for the directions +1 and -1.
QualifierDirected(e) ==
    LET S == last.state[1]
    IN  /\ S.direction = 1 =>
              /\ e.new # None <=> TypesOf(S.seq) \in QualifierPrefixes
              /\ e.new # None => e.new[1].direction = 1
        /\ S.direction = -1 => e.new # None /\ e.new[1].direction = -1

\* C20: for a popped sequence S without QUALIFIER, a QUALIFIER is accepted
\* with direction +1 exactly when S is empty, [PARTIAL], [NEAR_ITEM] or
\* [NEAR_ITEM, PARTIAL]; with direction -1 the result is -1; with direction
\* 0 and S not empty the result is -1 if S has more than one segment or a
\* POSTCODE or COUNTRY, and 0 otherwise.
C20_QualifierRule ==
    \A e \in QualifierAdvances :
        LET S == last.state[1]
        IN  /\ QualifierDirected(e)
            /\ S.direction = 0 /\ S.seq # <<>> =>
                  /\ e.new # None
                  /\ e.new[1].direction =
                        IF \/ Len(S.seq) > 1
                           \/ has_types(S, {TOKEN_POSTCODE, TOKEN_COUNTRY})
                        THEN -1 ELSE 0

\* C20 as appendable has it: with direction 0 a leading NEAR_ITEM of S is
\* not counted; behind the NEAR_ITEM alone the result is +1, otherwise -1
\* if the rest of S has more than one segment or S has a POSTCODE or
\* COUNTRY, and 0 otherwise.
C20_QualifierRuleBehindNearItem ==
    \A e \in QualifierAdvances :
        LET S == last.state[1]
            rest == IF S.seq[1].ttype = TOKEN_NEAR_ITEM THEN Tail(S.seq) ELSE S.seq
        IN  /\ QualifierDirected(e)
            /\ S.direction = 0 /\ S.seq # <<>> =>
                  /\ e.new # None
                  /\ e.new[1].direction =
                        IF rest = <<>>
                        THEN 1
                        ELSE IF \/ Len(rest) > 1
                                \/ has_types(S, {TOKEN_POSTCODE, TOKEN_COUNTRY})
                             THEN -1 ELSE 0

\* A QUALIFIER was appended behind [NEAR_ITEM, PARTIAL] with direction 0
\* and the direction stayed 0.
C20_Witness ==
    /\ last.state # None
    /\ TypesOf(last.state[1].seq) = <<TOKEN_NEAR_ITEM, TOKEN_PARTIAL>>
    /\ last.state[1].direction = 0
    /\ \E e \in QualifierAdvances : e.new # None /\ e.new[1].direction = 0

(***************************************************************************)
(* Claims about the HOUSENUMBER rule of appendable.                        *)
(***************************************************************************)
\* The advances with a HOUSENUMBER token list of the last round, when the
\* popped sequence is not empty and has no HOUSENUMBER.
HousenumberAdvances ==
    IF /\ last.state # None
       /\ last.state[1].seq # <<>>
       /\ ~has_types(last.state[1], {TOKEN_HOUSENUMBER})
    THEN {e \in LastTrans : e.ttype = TOKEN_HOUSENUMBER}
    ELSE {}

\* C21: for a popped non-empty sequence S without HOUSENUMBER, a
\* HOUSENUMBER with direction +1 is refused when S has more than two
\* segments, a POSTCODE or COUNTRY, or is [QUALIFIER] alone, and gives +1
\* otherwise; with direction -1, or direction 0 behind a POSTCODE or
\* COUNTRY, it gives -1; otherwise it gives 0.
C21_HousenumberRule ==
    \A e \in HousenumberAdvances :
        LET S == last.state[1]
            after == has_types(S, {TOKEN_POSTCODE, TOKEN_COUNTRY})
        IN  /\ S.direction = 1 =>
                  /\ e.new = None <=>
                        \/ Len(S.seq) > 2
                        \/ after
                        \/ TypesOf(S.seq) = <<TOKEN_QUALIFIER>>
                  /\ e.new # None => e.new[1].direction = 1
            /\ S.direction = -1 \/ (S.direction = 0 /\ after) =>
                  e.new # None /\ e.new[1].direction = -1
            /\ S.direction = 0 /\ ~after =>
                  e.new # None /\ e.new[1].direction = 0

\* A HOUSENUMBER was appended behind [QUALIFIER, PARTIAL] read left to
\* right.
C21_Witness ==
    /\ last.state # None
    /\ TypesOf(last.state[1].seq) = <<TOKEN_QUALIFIER, TOKEN_PARTIAL>>
    /\ last.state[1].direction = 1
    /\ \E e \in HousenumberAdvances : e.new # None /\ e.new[1].direction = 1

(***************************************************************************)
(* Claims about the assignments of a completed sequence.                   *)
(***************************************************************************)
\* The completed sequences of the last round with a postcode at the query
\* boundary and at least one address range.
PostcodeAtBoundary ==
    {e \in LastCompleted :
        LET base == from_ranges(e.checked[1].seq)
        IN  /\ Has(base.postcode)
            /\ base.address # <<>>
            /\ ~too_many_address_tokens(base)
            /\ (base.postcode.start = 0 \/ base.postcode.end = query.n)}

\* The first assignment yielded for the sequence is the one without name.
PostcodeSearchYielded(e) ==
    /\ e.yielded # <<>>
    /\ ~Has(e.yielded[1].name)
    /\ e.yielded[1] = [from_ranges(e.checked[1].seq) EXCEPT !.penalty = e.yielded[1].penalty]

\* C22: the postcode search variant of a completed sequence with a
\* postcode at the query boundary and n >= 1 address ranges has the
\* penalty of the sequence plus 0.1 * max(0, n - 1) when the postcode is
\* at the query end, and 0.1 more when the postcode is at slot 0.
C22_PostcodeSearchPrefersAddressFirst ==
    \A e \in PostcodeAtBoundary :
        LET base == from_ranges(e.checked[1].seq)
            more == PenaltyPostcode * Max(0, Len(base.address) - 1)
        IN  PostcodeSearchYielded(e) =>
               e.yielded[1].penalty =
                  e.checked[1].penalty + more
                  + (IF base.postcode.start = 0 THEN PenaltyPostcode ELSE 0)

\* C22 as _get_assignments_postcode has it: the variant is yielded first
\* when the postcode is at slot 0 and the direction is not -1, with the
\* penalty of the sequence plus 0.1 * max(0, n - 1), and when the
\* postcode is at the query end and the direction is not +1, with 0.1
\* more; it is not yielded otherwise.
C22_PostcodeSearchPenalty ==
    \A e \in PostcodeAtBoundary :
        LET base == from_ranges(e.checked[1].seq)
            d == e.checked[1].direction
            more == PenaltyPostcode * Max(0, Len(base.address) - 1)
        IN  /\ PostcodeSearchYielded(e) <=>
                  \/ base.postcode.start = 0 /\ d # -1
                  \/ base.postcode.end = query.n /\ d # 1
            /\ PostcodeSearchYielded(e) =>
                  e.yielded[1].penalty =
                     e.checked[1].penalty + more
                     + (IF base.postcode.start = 0 THEN 0 ELSE PenaltyPostcode)

\* A postcode at the query end behind two address ranges was yielded as
\* postcode search with two surcharges of 0.1.
C22_Witness ==
    \E e \in PostcodeAtBoundary :
        /\ PostcodeSearchYielded(e)
        /\ Len(e.yielded[1].address) = 2
        /\ e.yielded[1].postcode.end = query.n
        /\ e.yielded[1].penalty = e.checked[1].penalty + 2 * PenaltyPostcode

\* The completed sequences of the last round with a HOUSENUMBER and
\* without QUALIFIER, of at most 50 address slots.
HousenumberCompleted ==
    {e \in LastCompleted :
        LET base == from_ranges(e.checked[1].seq)
        IN  /\ Has(base.housenumber)
            /\ ~Has(base.qualifier)
            /\ ~too_many_address_tokens(base)}

\* The assignment without name of the sequence, with the given penalty,
\* was yielded.
RawYielded(e, penalty) ==
    \E k \in DOMAIN e.yielded :
        e.yielded[k] = [from_ranges(e.checked[1].seq) EXCEPT !.penalty = penalty]

\* C23: every completed sequence with a HOUSENUMBER and without QUALIFIER
\* yields the raw assignment (no name, all PARTIAL ranges as address, the
\* other roles of the sequence) with the penalty of the sequence, also
\* when the sequence has no PARTIAL segment.
C23_HousenumberVariant ==
    \A e \in HousenumberCompleted : RawYielded(e, e.checked[1].penalty)

\* C23 as get_assignments has it: the raw assignment is yielded when the
\* sequence has a PARTIAL segment, with the penalty of the sequence and
\* 0.1 more when a postcode starts at slot 0; a sequence with a
\* HOUSENUMBER and no PARTIAL segment yields nothing.
C23_HousenumberVariantWithAddress ==
    \A e \in HousenumberCompleted :
        LET base == from_ranges(e.checked[1].seq)
        IN  IF base.address = <<>>
            THEN e.yielded = <<>>
            ELSE /\ e.yielded # <<>>
                 /\ e.yielded[Len(e.yielded)] =
                       [base EXCEPT !.penalty =
                           e.checked[1].penalty
                           + (IF Has(base.postcode) /\ base.postcode.start = 0
                              THEN PenaltyPostcode ELSE 0)]

\* A right-to-left sequence of a postcode at slot 0, a PARTIAL and a
\* HOUSENUMBER has yielded the raw assignment with 0.1 more than the
\* penalty of the sequence.
C23_Witness ==
    \E e \in HousenumberCompleted :
        /\ TypesOf(e.checked[1].seq) = <<TOKEN_POSTCODE, TOKEN_PARTIAL, TOKEN_HOUSENUMBER>>
        /\ e.checked[1].direction = -1
        /\ RawYielded(e, e.checked[1].penalty + PenaltyPostcode)
        /\ ~RawYielded(e, e.checked[1].penalty)

(***************************************************************************)
(* Claims about recheck_sequence.                                          *)
(***************************************************************************)
\* The sequences with a HOUSENUMBER that reached the query end in the last
\* round.
HousenumberAtEnd ==
    {e \in LastTrans : e.complete /\ hnrpos(e.new[1].seq) > 0}

\* PARTIAL segments in front of and behind the housenumber.
PartialsBefore(seq) == CountPartials(seq, 1, hnrpos(seq) - 1)

PartialsAfter(seq) == CountPartials(seq, hnrpos(seq) + 1, Len(seq))

\* The penalty that recheck_sequence adds for a NEAR_ITEM next to a
\* housenumber.
NearItemSurcharge(seq) ==
    IF \E i \in DOMAIN seq : seq[i].ttype = TOKEN_NEAR_ITEM THEN PenaltyNearHnr ELSE 0

\* recheck_sequence has accepted the sequence with the given direction and
\* the given addition to the penalty.
Rechecked(e, direction, added) ==
    /\ e.checked # None
    /\ e.checked[1].direction = direction
    /\ e.checked[1].penalty = e.new[1].penalty + added + NearItemSurcharge(e.new[1].seq)

\* The recheck of a sequence with a direction: the wrong side is in front
\* of the housenumber for +1 and behind it for -1.
RecheckDirected(e) ==
    LET s == e.new[1]
        wrong == IF s.direction = 1 THEN PartialsBefore(s.seq) ELSE PartialsAfter(s.seq)
    IN  s.direction # 0 =>
           /\ wrong < 2 => Rechecked(e, s.direction, 0)
           /\ wrong = 2 => Rechecked(e, s.direction, PenaltyPriors)
           /\ wrong > 2 => e.checked = None /\ e.yielded = <<>>

\* C24: a completed sequence with a housenumber and a direction gets 0.8
\* penalty for exactly two PARTIAL segments on the wrong side and is
\* rejected for three or more; with direction 0, two or more PARTIAL
\* segments in front of (behind) the housenumber set the direction to -1
\* (+1) without penalty.
C24_RecheckHousenumber ==
    \A e \in HousenumberAtEnd :
        LET s == e.new[1]
        IN  /\ RecheckDirected(e)
            /\ s.direction = 0 /\ PartialsBefore(s.seq) >= 2 => Rechecked(e, -1, 0)
            /\ s.direction = 0 /\ PartialsAfter(s.seq) >= 2 => Rechecked(e, 1, 0)

\* C24 as recheck_sequence has it: with direction 0 and two or more
\* PARTIAL segments in front of the housenumber the direction becomes -1
\* and the segments behind the housenumber count as for direction -1;
\* with fewer than two in front and two or more behind the direction
\* becomes +1 without penalty.
C24_RecheckHousenumberInOrder ==
    \A e \in HousenumberAtEnd :
        LET s == e.new[1]
            before == PartialsBefore(s.seq)
            after == PartialsAfter(s.seq)
        IN  /\ RecheckDirected(e)
            /\ s.direction = 0 /\ before >= 2 =>
                  /\ after < 2 => Rechecked(e, -1, 0)
                  /\ after = 2 => Rechecked(e, -1, PenaltyPriors)
                  /\ after > 2 => e.checked = None /\ e.yielded = <<>>
            /\ s.direction = 0 /\ before < 2 =>
                  IF after >= 2 THEN Rechecked(e, 1, 0) ELSE Rechecked(e, 0, 0)

\* A sequence of direction 0 with two PARTIAL segments in front of the
\* housenumber and two behind it was turned right-to-left with 0.8
\* penalty.
C24_Witness ==
    \E e \in HousenumberAtEnd :
        /\ e.new[1].direction = 0
        /\ PartialsBefore(e.new[1].seq) = 2
        /\ PartialsAfter(e.new[1].seq) = 2
        /\ Rechecked(e, -1, PenaltyPriors)

(***************************************************************************)
(* Claims about the address readings.                                      *)
(***************************************************************************)
\* The completed sequences of the last round with an address range.
AddressCompleted ==
    {e \in LastCompleted :
        LET base == from_ranges(e.checked[1].seq)
        IN  base.address # <<>> /\ ~too_many_address_tokens(base)}

\* The assignments the sequence yields for the same query with
\* dir_penalty = 0.
YieldedUnhinted(e) ==
    get_assignments(e.checked[1], [query EXCEPT !.dir_penalty = 0])

FirstAddress(e) == from_ranges(e.checked[1].seq).address[1]

LastAddress(e) ==
    LET address == from_ranges(e.checked[1].seq).address
    IN  address[Len(address)]

\* The k-th assignment belongs to the left-to-right reading: it has a name
\* and the sequence is read left to right, or in both directions with the
\* name at the start of the first PARTIAL segment.
ForwardReading(e, k) ==
    /\ Has(e.yielded[k].name)
    /\ \/ e.checked[1].direction = 1
       \/ /\ e.checked[1].direction = 0
          /\ e.yielded[k].name.start = FirstAddress(e).start

\* The k-th assignment belongs to the right-to-left reading.
BackwardReading(e, k) ==
    /\ Has(e.yielded[k].name)
    /\ \/ e.checked[1].direction = -1
       \/ /\ e.checked[1].direction = 0
          /\ e.yielded[k].name.end = LastAddress(e).end

\* The same assignments are yielded whatever dir_penalty is, apart from
\* their penalties.
SameApartFromPenalty(e) ==
    /\ Len(e.yielded) = Len(YieldedUnhinted(e))
    /\ \A k \in DOMAIN e.yielded :
          [e.yielded[k] EXCEPT !.penalty = 0] = [YieldedUnhinted(e)[k] EXCEPT !.penalty = 0]

\* C25: a positive dir_penalty never makes an assignment of the
\* left-to-right reading more expensive than it is with dir_penalty = 0,
\* and a negative dir_penalty never makes an assignment of the
\* right-to-left reading more expensive.
C25_DirPenaltyFavours ==
    \A e \in AddressCompleted :
        /\ SameApartFromPenalty(e)
        /\ \A k \in DOMAIN e.yielded :
              /\ query.dir_penalty > 0 /\ ForwardReading(e, k) =>
                    e.yielded[k].penalty <= YieldedUnhinted(e)[k].penalty
              /\ query.dir_penalty < 0 /\ BackwardReading(e, k) =>
                    e.yielded[k].penalty <= YieldedUnhinted(e)[k].penalty

\* What dir_penalty adds to the k-th assignment: its magnitude, when the
\* sequence has the direction of the reading and no country, or has no
\* direction and the name is split off its PARTIAL segment.
DirPenaltyAdded(e, k, direction, whole) ==
    IF \/ e.checked[1].direction = direction
          /\ ~Has(e.yielded[k].country)
       \/ e.checked[1].direction = 0
          /\ e.yielded[k].name # whole
    THEN IF direction = 1 THEN query.dir_penalty ELSE 0 - query.dir_penalty
    ELSE 0

\* C25 as the readings have it: dir_penalty is a penalty on a reading; a
\* positive value is added to assignments of the left-to-right reading
\* and leaves the right-to-left reading and the assignments without name
\* as they are, a negative value is added in magnitude to assignments of
\* the right-to-left reading and leaves the others as they are.
C25_DirPenaltyPenalises ==
    \A e \in AddressCompleted :
        /\ SameApartFromPenalty(e)
        /\ \A k \in DOMAIN e.yielded :
              e.yielded[k].penalty =
                 YieldedUnhinted(e)[k].penalty
                 + (IF query.dir_penalty > 0 /\ ForwardReading(e, k)
                    THEN DirPenaltyAdded(e, k, 1, FirstAddress(e))
                    ELSE IF query.dir_penalty < 0 /\ BackwardReading(e, k)
                    THEN DirPenaltyAdded(e, k, -1, LastAddress(e))
                    ELSE 0)

\* With a positive dir_penalty a sequence read left to right has yielded
\* an assignment that costs dir_penalty more than without the hint.
C25_Witness ==
    /\ query.dir_penalty > 0
    /\ \E e \in AddressCompleted :
          /\ e.checked[1].direction = 1
          /\ \E k \in DOMAIN e.yielded :
                /\ ForwardReading(e, k)
                /\ e.yielded[k].penalty = YieldedUnhinted(e)[k].penalty + query.dir_penalty

\* The k-th assignment has a name split off the first PARTIAL segment in
\* the left-to-right reading.
ForwardSplit(e, k) ==
    /\ e.checked[1].direction # -1
    /\ Has(e.yielded[k].name)
    /\ e.yielded[k].name.start = FirstAddress(e).start
    /\ e.yielded[k].name.end < FirstAddress(e).end

\* The k-th assignment has a name split off the last PARTIAL segment in
\* the right-to-left reading.
BackwardSplit(e, k) ==
    /\ e.checked[1].direction # 1
    /\ Has(e.yielded[k].name)
    /\ e.yielded[k].name.end = LastAddress(e).end
    /\ e.yielded[k].name.start > LastAddress(e).start

\* The penalty of the readings of a sequence before dir_penalty: that of
\* the sequence, and 0.1 more behind a postcode at slot 0.
ReadingBase(e) ==
    LET base == from_ranges(e.checked[1].seq)
    IN  e.checked[1].penalty
        + (IF Has(base.postcode) /\ base.postcode.start = 0 THEN PenaltyPostcode ELSE 0)

\* What a split costs beyond the base penalty of the reading, dir_penalty
\* and the word_break_penalty of the node of the split.
SplitSurcharge(e, k) ==
    e.yielded[k].penalty - ReadingBase(e)
    - (IF ForwardSplit(e, k)
       THEN word_break_penalty(query, e.yielded[k].name.end)
            + (IF query.dir_penalty > 0
                  /\ (e.checked[1].direction = 0 \/ ~Has(e.yielded[k].country))
               THEN query.dir_penalty ELSE 0)
       ELSE word_break_penalty(query, e.yielded[k].name.start)
            + (IF query.dir_penalty < 0
                  /\ (e.checked[1].direction = 0 \/ ~Has(e.yielded[k].country))
               THEN 0 - query.dir_penalty ELSE 0))

HousenumberBehindFirst(e) ==
    LET base == from_ranges(e.checked[1].seq)
    IN  Has(base.housenumber) /\ RangeGt(base.housenumber, FirstAddress(e))

HousenumberBeforeLast(e) ==
    LET base == from_ranges(e.checked[1].seq)
    IN  Has(base.housenumber) /\ RangeLt(base.housenumber, LastAddress(e))

\* C26: in both readings a split costs 0.25 beyond base penalty,
\* dir_penalty and word_break_penalty when the query has more than one
\* phrase or the housenumber is on the wrong side of the chosen range
\* (behind it in the forward, in front of it in the backward reading),
\* and nothing otherwise.
C26_SplitSurcharge ==
    \A e \in AddressCompleted : \A k \in DOMAIN e.yielded :
        /\ ForwardSplit(e, k) =>
              SplitSurcharge(e, k) =
                 IF query.nsource > 1 \/ HousenumberBehindFirst(e) THEN PenaltySplit ELSE 0
        /\ BackwardSplit(e, k) =>
              SplitSurcharge(e, k) =
                 IF query.nsource > 1 \/ HousenumberBeforeLast(e) THEN PenaltySplit ELSE 0

\* C26 as the readings have it: a forward split costs 0.25 for more than
\* one phrase or a housenumber behind the first range; a backward split
\* costs 0.25 for more than one phrase and 0.4 for a housenumber in front
\* of the last range, both when both apply.
C26_SplitSurchargeByReading ==
    \A e \in AddressCompleted : \A k \in DOMAIN e.yielded :
        /\ ForwardSplit(e, k) =>
              SplitSurcharge(e, k) =
                 IF query.nsource > 1 \/ HousenumberBehindFirst(e) THEN PenaltySplit ELSE 0
        /\ BackwardSplit(e, k) =>
              SplitSurcharge(e, k) =
                 (IF query.nsource > 1 THEN PenaltySplit ELSE 0)
                 + (IF HousenumberBeforeLast(e) THEN PenaltySplitHnrBackward ELSE 0)

\* A backward split behind a housenumber in a query of two phrases has
\* cost 0.65.
C26_Witness ==
    \E e \in AddressCompleted : \E k \in DOMAIN e.yielded :
        /\ BackwardSplit(e, k)
        /\ HousenumberBeforeLast(e)
        /\ query.nsource > 1
        /\ SplitSurcharge(e, k) = PenaltySplit + PenaltySplitHnrBackward

\* The split of the first PARTIAL segment at node i was yielded in the
\* left-to-right reading.
ForwardSplitAt(e, i) ==
    \E k \in DOMAIN e.yielded :
        /\ ForwardSplit(e, k)
        /\ e.yielded[k].name = TokenRange(FirstAddress(e).start, i)
        /\ e.yielded[k].address =
              <<TokenRange(i, FirstAddress(e).end)>>
              \o Tail(from_ranges(e.checked[1].seq).address)

\* The split of the last PARTIAL segment at node i was yielded in the
\* right-to-left reading.
BackwardSplitAt(e, i) ==
    \E k \in DOMAIN e.yielded :
        /\ BackwardSplit(e, k)
        /\ e.yielded[k].name = TokenRange(i, LastAddress(e).end)
        /\ LET address == from_ranges(e.checked[1].seq).address
           IN  e.yielded[k].address =
                  SubSeq(address, 1, Len(address) - 1)
                  \o <<TokenRange(LastAddress(e).start, i)>>

\* What forbids the split of the first PARTIAL segment: a strictly typed
\* phrase, a qualifier behind the segment, a housenumber behind the
\* segment and not next to it.
ForwardSplitForbidden(e) ==
    LET base == from_ranges(e.checked[1].seq)
    IN  \/ query.ptype[FirstAddress(e).start] # PHRASE_ANY
        \/ Has(base.qualifier) /\ base.qualifier.start >= FirstAddress(e).end
        \/ Has(base.housenumber) /\ base.housenumber.start > FirstAddress(e).end

\* What forbids the split of the last PARTIAL segment.
BackwardSplitForbidden(e) ==
    LET base == from_ranges(e.checked[1].seq)
    IN  \/ query.ptype[LastAddress(e).start] # PHRASE_ANY
        \/ Has(base.qualifier) /\ base.qualifier.end <= LastAddress(e).start
        \/ Has(base.housenumber) /\ base.housenumber.end < LastAddress(e).start

InteriorOf(r) == (r.start + 1)..(r.end - 1)

\* C27: no split of the chosen PARTIAL segment is emitted when the
\* segment starts in a strictly typed phrase, a qualifier lies on its
\* address side, or the housenumber lies on that side and not next to
\* it; otherwise the reading emits a split at every interior node of the
\* segment.
C27_SplitOmission ==
    \A e \in AddressCompleted :
        /\ \A i \in InteriorOf(FirstAddress(e)) :
              ForwardSplitAt(e, i) <=>
                 e.checked[1].direction # -1 /\ ~ForwardSplitForbidden(e)
        /\ \A i \in InteriorOf(LastAddress(e)) :
              BackwardSplitAt(e, i) <=>
                 e.checked[1].direction # 1 /\ ~BackwardSplitForbidden(e)
        /\ \A k \in DOMAIN e.yielded :
              Has(e.yielded[k].name) /\ e.yielded[k].name \notin {FirstAddress(e), LastAddress(e)}
                 => \/ ForwardSplitAt(e, e.yielded[k].name.end)
                    \/ BackwardSplitAt(e, e.yielded[k].name.start)

\* The postcode lies on the name side of the reading, which is then left
\* out as a whole.
PostcodeBeforeFirst(e) ==
    LET base == from_ranges(e.checked[1].seq)
    IN  Has(base.postcode) /\ base.postcode.end <= FirstAddress(e).start

PostcodeBehindLast(e) ==
    LET base == from_ranges(e.checked[1].seq)
    IN  Has(base.postcode) /\ base.postcode.start >= LastAddress(e).end

\* C27 as the readings have it: the split at every interior node of the
\* chosen segment is emitted exactly when the reading takes place (the
\* direction allows it and no postcode lies in front of the first segment
\* for the forward, behind the last segment for the backward reading)
\* and nothing forbids the split.
C27_SplitOmissionOfReadings ==
    \A e \in AddressCompleted :
        /\ \A i \in InteriorOf(FirstAddress(e)) :
              ForwardSplitAt(e, i) <=>
                 /\ e.checked[1].direction # -1
                 /\ ~PostcodeBeforeFirst(e)
                 /\ ~ForwardSplitForbidden(e)
        /\ \A i \in InteriorOf(LastAddress(e)) :
              BackwardSplitAt(e, i) <=>
                 /\ e.checked[1].direction # 1
                 /\ ~PostcodeBehindLast(e)
                 /\ ~BackwardSplitForbidden(e)
        /\ \A k \in DOMAIN e.yielded :
              Has(e.yielded[k].name) /\ e.yielded[k].name \notin {FirstAddress(e), LastAddress(e)}
                 => \/ ForwardSplitAt(e, e.yielded[k].name.end)
                    \/ BackwardSplitAt(e, e.yielded[k].name.start)

\* A sequence read left to right with a postcode in front of its first
\* PARTIAL segment of two or more slots, whose split nothing forbids, has
\* yielded assignments without name only.
C27_Witness ==
    \E e \in AddressCompleted :
        /\ e.checked[1].direction = 1
        /\ PostcodeBeforeFirst(e)
        /\ ~ForwardSplitForbidden(e)
        /\ InteriorOf(FirstAddress(e)) # {}
        /\ e.yielded # <<>>
        /\ \A k \in DOMAIN e.yielded : ~Has(e.yielded[k].name)

(***************************************************************************)
(* Claims about the word windows.                                          *)
(***************************************************************************)
\* The ranges of the entries of the words dictionary.
WordRanges ==
    {<<tok.result.words[k].start, tok.result.words[k].end>> :
        k \in DOMAIN tok.result.words}

\* The terms i .. j - 1 lie in one phrase: no node between them is a
\* phrase break.
InOnePhrase(i, j) ==
    \A k \in (i + 1)..(j - 1) : tok.result.created[k + 1].btype # BREAK_PHRASE

\* The pairs i < j of term positions inside one phrase with at most span
\* terms.
WindowsUpTo(span) ==
    {<<i, j>> \in (0..Len(tok.result.parts)) \X (0..Len(tok.result.parts)) :
        i < j /\ j - i <= span /\ InOnePhrase(i, j)}

\* C28: extract_words registers a lookup range [i, j) for exactly the
\* pairs i < j inside one phrase with j - i <= 19.
C28_WordWindows ==
    tok.pc = "split" => WordRanges = WindowsUpTo(19)

\* C28 as extract_words has it: the windows have up to 20 terms, and every
\* pair is registered once.
C28_WordWindowsOfTwenty ==
    tok.pc = "split" =>
        /\ WordRanges = WindowsUpTo(WindowSpan)
        /\ Len(tok.result.words) = Cardinality(WordRanges)

\* A source of two phrases, the first of more than 20 terms, was split:
\* the window of its first 20 terms is registered, that of 21 is not.
C28_Witness ==
    /\ tok.pc = "split"
    /\ Len(tok.source) = 2
    /\ Len(tok.source[1].words) > WindowSpan
    /\ <<0, WindowSpan>> \in WordRanges
    /\ <<0, WindowSpan + 1>> \notin WordRanges

(***************************************************************************)
(* Claims about the tokens of category rows.                               *)
(***************************************************************************)
\* Number of tokens of the k-th row in the token lists of the given type
\* on the range of the words entry w.
RowTokens(k, w, ttype) ==
    LET lists == tok.result.nodes[w.start + 1].starting
    IN  Cardinality({<<j, t>> \in (DOMAIN lists) \X (1..MaxRows) :
                        /\ lists[j].ttype = ttype
                        /\ lists[j].end = w.end
                        /\ t \in DOMAIN lists[j].tokens
                        /\ lists[j].tokens[t].token = tok.rows[k].word_id})

\* The k-th row has exactly one token on the range of w, of the given
\* type.
OneRowToken(k, w, ttype) ==
    /\ RowTokens(k, w, ttype) = 1
    /\ \A other \in {TOKEN_NEAR_ITEM, TOKEN_QUALIFIER} \ {ttype} :
          RowTokens(k, w, other) = 0

\* The rows of type S with the entries of the words dictionary for their
\* word_token.
CategoryRowRanges ==
    {<<k, j>> \in (DOMAIN tok.rows) \X (DOMAIN tok.result.words) :
        /\ tok.rows[k].type = "S"
        /\ tok.result.words[j].word = tok.rows[k].word_token}

WholeQuery(w) == w.start = 0 /\ w.end = Len(tok.result.parts)

SyntheticAt(nodes, i) ==
    \E h \in HousenumbersAt(nodes, i) : Synthetic(h) /\ h.penalty = PenaltyExtraHnr

\* A HOUSENUMBER token list of the nodes covers slot i.
HousenumberOverlaps(nodes, i) ==
    \E b \in 0..i : \E k \in DOMAIN nodes[b + 1].starting :
        /\ nodes[b + 1].starting[k].ttype = TOKEN_HOUSENUMBER
        /\ nodes[b + 1].starting[k].end > i

\* The term of slot i is made of one to four digits.
ShortNumber(i) ==
    /\ isdigit(tok.result.parts[i + 1].token)
    /\ Len(tok.result.parts[i + 1].token) <= 4

\* C30: after add_extra_tokens every term position i, at any index, has
\* got a synthetic HOUSENUMBER token with penalty 0.5 on [i, i + 1) if and
\* only if the term is all digits, of length <= 4, and no HOUSENUMBER
\* token of the catalog overlaps slot i.
C30_SyntheticHousenumbers ==
    tok.pc = "extra" =>
        \A i \in 0..(Len(tok.result.parts) - 1) :
            SyntheticAt(tok.result.created, i)
            <=> ShortNumber(i) /\ ~HousenumberOverlaps(tok.result.nodes, i)

(***************************************************************************)
(* Claims about the postcode rule of rerank_tokens.                        *)
(***************************************************************************)
\* The adjustments the postcode rule made for list k of node i to list m.
PostcodeAdjustments(i, k, m) ==
    {x \in DOMAIN tok.result.adjust :
        /\ tok.result.adjust[x].rule = "postcode"
        /\ tok.result.adjust[x].node = i
        /\ tok.result.adjust[x].from = k
        /\ tok.result.adjust[x].to = m}

\* All adjustments made to list m of node i.
AdjustmentsTo(i, m) ==
    {x \in DOMAIN tok.result.adjust :
        tok.result.adjust[x].node = i /\ tok.result.adjust[x].to = m}

\* The lists of node i before rerank_tokens.
ListsAt(i) == tok.result.created[i + 1].starting

\* Each token of list m of node i has had amount added by rerank_tokens.
ListRaisedBy(i, m, amount) ==
    \A t \in DOMAIN ListsAt(i)[m].tokens :
        tok.result.nodes[i + 1].starting[m].tokens[t].penalty
            = ListsAt(i)[m].tokens[t].penalty + amount

\* The postcode rule has treated the lists of every postcode list's node
\* as Spared says: the lists of the postcode list's range that are not
\* spared got 0.39 once, all others nothing.
PostcodeRerank(Spared(_, _)) ==
    \A i \in 0..(Len(tok.result.created) - 1) :
        \A k \in DOMAIN ListsAt(i) :
            ListsAt(i)[k].ttype = TOKEN_POSTCODE =>
                \A m \in DOMAIN ListsAt(i) :
                    LET hits == PostcodeAdjustments(i, k, m)
                    IN  /\ Cardinality(hits) =
                              IF /\ ListsAt(i)[m].end = ListsAt(i)[k].end
                                 /\ ~Spared(ListsAt(i)[k], ListsAt(i)[m])
                              THEN 1 ELSE 0
                        /\ \A x \in hits :
                              tok.result.adjust[x].amount = PenaltyPostcodeRerank
                        /\ AdjustmentsTo(i, m) = hits =>
                              ListRaisedBy(i, m, PenaltyPostcodeRerank * Cardinality(hits))

\* Spared as the claim has it: postcode lists and housenumber lists with
\* a lookup word of more than four characters.
SparedLongHousenumber(tlist, repl) ==
    \/ repl.ttype = TOKEN_POSTCODE
    \/ /\ repl.ttype = TOKEN_HOUSENUMBER
       /\ Len(repl.tokens[1].lookup_word) > MinPostcodeHnrLen

\* Spared as rerank_tokens has it: postcode lists, and housenumber lists
\* when the lookup word of the postcode has at most four characters.
SparedBesideShortPostcode(tlist, repl) ==
    \/ repl.ttype = TOKEN_POSTCODE
    \/ /\ repl.ttype = TOKEN_HOUSENUMBER
       /\ Len(tlist.tokens[1].lookup_word) <= MinPostcodeHnrLen

\* C31: for every POSTCODE token list L, every other list with the same
\* start node and the same end gets +0.39 exactly once, unless it is a
\* POSTCODE list or a HOUSENUMBER list whose lookup word is longer than 4
\* characters; lists with a different range get nothing from L.
C31_PostcodeRerank ==
    tok.pc = "done" => PostcodeRerank(SparedLongHousenumber)

\* C31 as rerank_tokens has it: a HOUSENUMBER list on the range of L is
\* spared when the lookup word of the first token of L has at most 4
\* characters, whatever the length of the housenumber's lookup word.
C31_PostcodeRerankShortPostcode ==
    tok.pc = "done" => PostcodeRerank(SparedBesideShortPostcode)

\* A postcode of at most four characters on the range of a housenumber
\* list that is spared and of a list of another type that got 0.39.
C31_Witness ==
    /\ tok.pc = "done"
    /\ \E i \in 0..(Len(tok.result.created) - 1) :
         \E k, m, o \in DOMAIN ListsAt(i) :
            /\ ListsAt(i)[k].ttype = TOKEN_POSTCODE
            /\ Len(ListsAt(i)[k].tokens[1].lookup_word) <= MinPostcodeHnrLen
            /\ ListsAt(i)[m].ttype = TOKEN_HOUSENUMBER
            /\ ListsAt(i)[o].ttype \notin {TOKEN_POSTCODE, TOKEN_HOUSENUMBER}
            /\ ListsAt(i)[m].end = ListsAt(i)[k].end
            /\ ListsAt(i)[o].end = ListsAt(i)[k].end
            /\ PostcodeAdjustments(i, k, o) # {}
            /\ PostcodeAdjustments(i, k, m) = {}
            /\ ListRaisedBy(i, o, PenaltyPostcodeRerank)

(***************************************************************************)
(* Claims about the housenumber results of PlaceSearch.                    *)
(***************************************************************************)
\* The source table of the results made from a child row.
SourceOf(child) ==
    IF child.table = "placex" THEN SOURCE_PLACEX
    ELSE IF child.table = "osmline" THEN SOURCE_OSMLINE
    ELSE SOURCE_TIGER

\* The results PlaceSearch.lookup has made from the children of a row.
SubResults(row) ==
    {x \in DOMAIN srch.results :
        \E c \in DOMAIN row.children :
            /\ srch.results[x].source_table = SourceOf(row.children[c])
            /\ srch.results[x].place_id = row.children[c].place_id}

\* The results made from the row itself.
StreetResults(row) ==
    {x \in DOMAIN srch.results :
        /\ srch.results[x].source_table = SOURCE_PLACEX
        /\ srch.results[x].place_id = row.place_id}

\* One of the housenumbers of the result is a searched housenumber.
HasSearchedHousenumber(result) ==
    \E k \in DOMAIN result.housenumber :
        \E h \in DOMAIN srch.input.search.housenumbers :
            result.housenumber[k] = srch.input.search.housenumbers[h]

\* The source of housenumbers that comes first for the row, in the order
\* placex, interpolation, TIGER.
FirstSource(row) ==
    LET search == srch.input.search
        details == srch.input.details
    IN  IF placex_hnr(search, details, row) # <<>> THEN SOURCE_PLACEX
        ELSE IF interpol_hnr(search, details, row) # <<>> THEN SOURCE_OSMLINE
        ELSE SOURCE_TIGER

\* C32: in a PlaceSearch with housenumbers, for every catalog row with
\* rank_address < 30, each housenumber result made from the row has the
\* accuracy of the row, plus 0.6 when none of its housenumbers is a
\* searched one; the street result, when it is returned, has the row's
\* accuracy + 1.0 and so a strictly worse accuracy than every housenumber
\* result of the row; and the housenumber results of a row come from one
\* source, the first of placex, interpolation, TIGER that has any.
C32_StreetFallback ==
    Returned("place") /\ srch.input.search.housenumbers # <<>> =>
        \A r \in DOMAIN srch.input.catalog.rows :
            LET row == srch.input.catalog.rows[r]
                accuracy == place_accuracy(srch.input.search, srch.input.details, row)
            IN  row.rank_address < MaxAddressRank =>
                    /\ \A x \in SubResults(row) :
                          /\ srch.results[x].accuracy =
                                accuracy + IF HasSearchedHousenumber(srch.results[x])
                                           THEN 0 ELSE PenaltyOtherHousenumber
                          /\ srch.results[x].source_table = FirstSource(row)
                    /\ \A y \in StreetResults(row) :
                          /\ srch.results[y].accuracy = accuracy + PenaltyNoHousenumber
                          /\ \A x \in SubResults(row) :
                                srch.results[x].accuracy < srch.results[y].accuracy

\* A street with children in placex, osmline and tiger is returned behind
\* housenumber results that come from placex alone and carry the 0.6 for
\* a housenumber that is not a searched one; and a street is returned
\* behind an interpolated housenumber that is not written as searched.
C32_Witness ==
    /\ Returned("place")
    /\ \E r \in DOMAIN srch.input.catalog.rows :
          LET row == srch.input.catalog.rows[r]
          IN  /\ row.rank_address < MaxAddressRank
              /\ StreetResults(row) # {}
              /\ SubResults(row) # {}
              /\ \/ /\ Len(row.children) = 3
                    /\ \A x \in SubResults(row) :
                          /\ srch.results[x].source_table = SOURCE_PLACEX
                          /\ ~HasSearchedHousenumber(srch.results[x])
                 \/ /\ \A x \in SubResults(row) :
                          /\ srch.results[x].source_table = SOURCE_OSMLINE
                          /\ ~HasSearchedHousenumber(srch.results[x])

(***************************************************************************)
(* Claims about the breaks split_query leaves behind.                      *)
(***************************************************************************)
\* Number of terms of the first p phrases of the source.
RECURSIVE TermsUpTo(_)
TermsUpTo(p) ==
    IF p = 0 THEN 0 ELSE TermsUpTo(p - 1) + NumTerms(tok.source[p].words)

\* Number of terms up to and including word w of phrase p.
TermsUpToWord(p, w) ==
    TermsUpTo(p - 1) + NumTerms(SubSeq(tok.source[p].words, 1, w))

\* The break type of node i (0-based) of the analysed query.
BreakAt(i) == tok.result.nodes[i + 1].btype

\* One node more than terms, the last one with break type END.
NodesEndWithEnd ==
    /\ Len(tok.result.nodes) = Len(tok.result.parts) + 1
    /\ BreakAt(Len(tok.result.parts)) = BREAK_END

\* The node between two phrases has break type PHRASE.
PhraseBreaksBetweenPhrases ==
    \A p \in 1..(Len(tok.source) - 1) : BreakAt(TermsUpTo(p)) = BREAK_PHRASE

\* The nodes between the terms of one word have break type TOKEN.
TokenBreaksInsideWords ==
    \A p \in DOMAIN tok.source :
        \A w \in DOMAIN tok.source[p].words :
            \A i \in (TermsUpToWord(p, w - 1) + 1)..(TermsUpToWord(p, w) - 1) :
                BreakAt(i) = BREAK_TOKEN

\* Each term carries the table penalty of the break behind it.
TermPenaltiesOfBreaks ==
    \A k \in DOMAIN tok.result.parts :
        tok.result.parts[k].penalty = PENALTY_IN_TOKEN_BREAK(BreakAt(k))

\* C33: after split_query the query has one node more than terms, the
\* last node has break type END, the node between the last term of a
\* phrase and the first term of the next has break type PHRASE, nodes
\* between the terms of one transliterated word have break type TOKEN and
\* each term's penalty is the table penalty of the break behind it, also
\* when a word of a phrase transliterates to the empty string.
C33_BreakStructure ==
    tok.pc = "done" =>
        /\ NodesEndWithEnd
        /\ PhraseBreaksBetweenPhrases
        /\ TokenBreaksInsideWords
        /\ TermPenaltiesOfBreaks

(***************************************************************************)
(* Termination of yield_token_assignments.                                 *)
(***************************************************************************)
\* The states pushed in the last round end behind the popped state and
\* before the end of the query; assignments are yielded in it only for
\* sequences that end at the end of the query.
PushedInsideQuery ==
    \A e \in LastTrans :
        /\ e.push # None =>
              /\ end_pos(e.push[1]) > end_pos(last.state[1])
              /\ end_pos(e.push[1]) < num_token_slots(query)
        /\ e.yielded # <<>> =>
              /\ e.new # None
              /\ end_pos(e.new[1]) = num_token_slots(query)

\* Every state on the stack ends at a node of the query that has a
\* following slot.
TodoInsideQuery ==
    \A s \in TodoStates : end_pos(s) \in 0..(num_token_slots(query) - 1)

\* C34: yield_token_assignments empties its work stack after finitely many
\* steps; every state pushed on the stack has an end_pos strictly greater
\* than its parent's and strictly smaller than num_token_slots, so that
\* query.nodes[end_pos] is in range for every state popped, and
\* assignments are emitted only for sequences ending at num_token_slots.
C34_EnumerationTerminates ==
    /\ [](PushedInsideQuery /\ TodoInsideQuery)
    /\ <>(todo = <<>>)

\* The stack is empty after a round that popped a state which had been
\* pushed before, and assignments have been yielded.
C34_Witness ==
    /\ todo = <<>>
    /\ last.state # None
    /\ end_pos(last.state[1]) > 0
    /\ nyielded > 0

(***************************************************************************)
(* Claims about the stages of the database import.                         *)
(***************************************************************************)
\* The stages in the order of async_run.
StageOrder ==
    <<STAGE_SKELETON, STAGE_BASE_IMPORT, STAGE_LOAD_DATA, STAGE_TOKENIZER,
      STAGE_POSTCODES, STAGE_INDEXING, STAGE_POSTPROCESS, STAGE_FINALIZE>>

StagePosition(stage) == CHOOSE k \in DOMAIN StageOrder : StageOrder[k] = stage

\* The stages that work on the data.
DataStages ==
    {STAGE_BASE_IMPORT, STAGE_LOAD_DATA, STAGE_POSTCODES, STAGE_INDEXING,
     STAGE_POSTPROCESS, STAGE_FINALIZE}

\* The stage named by continue_at; a run from scratch starts with the
\* base import.
NamedStage(continue_at) ==
    CASE continue_at = NoContinue -> STAGE_BASE_IMPORT
      [] continue_at = "import-from-file" -> STAGE_BASE_IMPORT
      [] continue_at = "load-data" -> STAGE_LOAD_DATA
      [] continue_at = "indexing" -> STAGE_INDEXING
      [] continue_at = "db-postprocess" -> STAGE_POSTPROCESS

\* The data stages from the named stage on.
DataSuffix(continue_at) ==
    {s \in DataStages : StagePosition(s) >= StagePosition(NamedStage(continue_at))}

ExecutedStages == {imp.executed[k] : k \in DOMAIN imp.executed}

\* The stages were executed in the order of StageOrder, each at most once.
ExecutedInOrder ==
    \A j, k \in DOMAIN imp.executed :
        j < k => StagePosition(imp.executed[j]) < StagePosition(imp.executed[k])

\* async_run has returned 0.
Returned0 == imp.pc = "returned" /\ imp.result = "0"

\* C35: async_run executes the stages in the order skeleton, base import,
\* load data, tokenizer, postcodes, indexing, post-processing, finalize;
\* the data stages executed are those from the stage named by continue_at
\* on, all of them once the run has returned; the skeleton is created
\* only when continue_at is unset or prepare_database is set; the
\* tokenizer is created iff continue_at is unset, import-from-file or
\* load-data and loaded otherwise; with prepare_database the run returns
\* 0 right behind the skeleton and executes nothing else.
C35_ResumableStages ==
    imp.pc # "idle" =>
        /\ ExecutedInOrder
        /\ STAGE_SKELETON \in ExecutedStages =>
              imp.prepare_database \/ imp.continue_at = NoContinue
        /\ imp.prepare_database =>
              /\ ExecutedStages \subseteq {STAGE_SKELETON}
              /\ imp.pc # "start" => Returned0 /\ imp.executed = <<STAGE_SKELETON>>
        /\ ~imp.prepare_database =>
              /\ ExecutedStages \cap DataStages \subseteq DataSuffix(imp.continue_at)
              /\ imp.pc # "start" =>
                    (STAGE_SKELETON \in ExecutedStages <=> imp.continue_at = NoContinue)
              /\ Returned0 =>
                    /\ ExecutedStages \cap DataStages = DataSuffix(imp.continue_at)
                    /\ STAGE_TOKENIZER \in ExecutedStages
        /\ STAGE_TOKENIZER \in ExecutedStages =>
              /\ imp.tokenizer = "created" <=>
                    imp.continue_at \in {NoContinue, "import-from-file", "load-data"}
              /\ imp.tokenizer = "loaded" <=>
                    imp.continue_at \in {"indexing", "db-postprocess"}

\* A run continued at indexing has returned after loading the tokenizer,
\* indexing, post-processing and finalizing.
C35_Witness ==
    /\ Returned0
    /\ imp.continue_at = "indexing"
    /\ imp.tokenizer = "loaded"
    /\ imp.executed =
          <<STAGE_TOKENIZER, STAGE_INDEXING, STAGE_POSTPROCESS, STAGE_FINALIZE>>

(***************************************************************************)
(* Claims about the direction of a sequence.                               *)
(***************************************************************************)
\* The direction the first segment of a sequence decides.
FirstSegmentDecides(s) ==
    s.seq # <<>> =>
        /\ s.seq[1].ttype = TOKEN_COUNTRY => s.direction = -1
        /\ s.seq[1].ttype \in {TOKEN_HOUSENUMBER, TOKEN_QUALIFIER} => s.direction = 1

\* C36: a decided direction is never reversed: an accepted advance of a
\* non-empty sequence with direction d # 0 gives a sequence of direction
\* d, and recheck_sequence changes the direction only when it is 0; so a
\* sequence whose first segment is COUNTRY has direction -1 and one whose
\* first segment is HOUSENUMBER or QUALIFIER has direction +1.
C36_DirectionKept ==
    /\ \A s \in TodoStates : FirstSegmentDecides(s)
    /\ last.state # None =>
          \A e \in LastTrans :
              e.new # None =>
                  /\ last.state[1].seq # <<>> /\ last.state[1].direction # 0 =>
                        e.new[1].direction = last.state[1].direction
                  /\ FirstSegmentDecides(e.new[1])
                  /\ e.checked # None =>
                        /\ e.new[1].direction # 0 =>
                              e.checked[1].direction = e.new[1].direction
                        /\ FirstSegmentDecides(e.checked[1])

\* A non-empty sequence with a decided direction has been advanced to the
\* end of the query, and recheck_sequence has added 0.8 for two PARTIAL
\* segments on the far side of the housenumber and left the direction.
C36_Witness ==
    /\ last.state # None
    /\ last.state[1].seq # <<>>
    /\ last.state[1].direction # 0
    /\ \E e \in LastCompleted :
          /\ e.new[1].direction = last.state[1].direction
          /\ e.checked[1].direction = e.new[1].direction
          /\ e.checked[1].penalty >= e.new[1].penalty + PenaltyPriors

(***************************************************************************)
(* Claims about the set of assignments of one sequence.                    *)
(***************************************************************************)
\* The role layout of an assignment: everything but the penalty.
RoleLayout(a) ==
    <<a.name, a.address, a.housenumber, a.postcode, a.country, a.near_item,
      a.qualifier>>

\* C37: the assignments yielded by one call of get_assignments on a
\* completed sequence differ pairwise in their role layout (name, address
\* list, housenumber, postcode, country, near_item, qualifier), for every
\* direction, phrase typing and dir_penalty.
C37_NoDuplicateLayouts ==
    \A e \in LastCompleted :
        \A j, k \in DOMAIN e.yielded :
            j # k => RoleLayout(e.yielded[j]) # RoleLayout(e.yielded[k])

\* A sequence of direction 0 with a single address range of several slots
\* has been read in both directions: the first word as name, and splits
\* of both readings.
C37_Witness ==
    \E e \in LastCompleted :
        /\ e.checked[1].direction = 0
        /\ Len(e.checked[1].seq) = 1
        /\ Len(e.yielded) >= 4
        /\ \E j, k \in DOMAIN e.yielded :
              /\ e.yielded[j].name.start = 0
              /\ e.yielded[j].address # <<>>
              /\ e.yielded[k].name.end = query.n
              /\ e.yielded[k].address # <<>>

\* min_rank and max_rank of a SearchDetails
Ranks(details) == <<details.min_rank, details.max_rank>>

\* CountrySearch.lookup was among the lookups of the last search run.
CountrySearchRan(s) ==
    \/ s.kind = "country"
    \/ s.kind = "near" /\ s.input.inner.kind = "country"

\* C38: when searches of any variant, NearSearch around any inner search
\* included, are looked up one after another on one SearchDetails that
\* starts with min_rank <= max_rank, then after every lookup min_rank <=
\* max_rank holds and max_rank has not grown, min_rank or max_rank differ
\* from before only when CountrySearch.lookup ran, and once
\* CountrySearch.lookup has set them no later lookup changes them.
C38_RankFilterWellFormed ==
    [][/\ srch'.details.min_rank <= srch'.details.max_rank
       /\ srch'.details.max_rank <= srch.details.max_rank
       /\ Ranks(srch'.details) # Ranks(srch.details) => CountrySearchRan(srch')
       /\ srch.windows >= 1 => Ranks(srch'.details) = Ranks(srch.details)]_vars

\* CountrySearch.lookup has found results twice on the details of a
\* request whose max_rank is below 5, the second time inside a NearSearch.
C38_Witness ==
    /\ srch.pc = "shared"
    /\ srch.windows = 2
    /\ srch.kind = "near"
    /\ srch.input.details.min_rank = srch.input.details.max_rank
    /\ srch.details.max_rank < CountryMinRank
    /\ srch.details.max_rank > 0

\* The number of calls of name that analyze_query has made.
CallsOf(name) == Cardinality({k \in DOMAIN tok.calls : tok.calls[k] = name})

\* Every call of name a has been made before every call of name b.
CalledBefore(a, b) ==
    \A j, k \in DOMAIN tok.calls :
        tok.calls[j] = a /\ tok.calls[k] = b => j < k

\* C39: a call of analyze_query whose source has no phrase returns a
\* query without token slots and has neither looked up words in the word
\* table nor added extra tokens nor reranked; a call with phrases looks up
\* the words exactly once, before add_extra_tokens, which runs before
\* rerank_tokens, and returns the query these three leave behind.
C39_EmptyQueryShortCircuit ==
    /\ CallsOf("lookup_in_db") <= 1
    /\ CalledBefore("lookup_in_db", "add_extra_tokens")
    /\ CalledBefore("add_extra_tokens", "rerank_tokens")
    /\ tok.pc = "done" /\ tok.source = <<>> =>
          /\ Len(tok.result.nodes) - 1 = 0
          /\ tok.calls = <<>>
          /\ tok.result.nodes[1].starting = <<>>
    /\ tok.pc = "done" /\ tok.source # <<>> =>
          /\ CallsOf("lookup_in_db") = 1
          /\ CallsOf("add_extra_tokens") = 1
          /\ CallsOf("rerank_tokens") = 1
          /\ tok.result = analyze_query(tok.source, tok.rows)

\* analyze_query has returned for a source without phrases.
C39_Witness ==
    /\ tok.pc = "done"
    /\ tok.source = <<>>
    /\ tok.result.nodes # <<>>

\* The word break penalties of the nodes at which the segments k.. of seq
\* start, added up.
RECURSIVE SegmentBreaks(_, _)
SegmentBreaks(seq, k) ==
    IF k > Len(seq)
    THEN 0
    ELSE word_break_penalty(query, seq[k].trange.start) + SegmentBreaks(seq, k + 1)

\* The penalty of s is that of the breaks before its second and later
\* segments.
PenaltyOfBreaks(s) == s.penalty = SegmentBreaks(s.seq, 2)

\* The states advance has returned in the last round.
LastAdvanced == {e.new[1] : e \in {x \in LastTrans : x.new # None}}

\* C40: every sequence state of the enumeration, on todo, popped or
\* returned by advance, has as penalty the sum of the word break penalties
\* of the nodes at which its second and later segments start: a state of
\* one segment has penalty 0 also where the START node has a penalty, and
\* an advance that extends the last segment, which only a PARTIAL token
\* without forced break does, leaves the penalty as it was.
C40_PenaltyIsSumOfBreaks ==
    /\ \A s \in TodoStates \cup LastAdvanced : PenaltyOfBreaks(s)
    /\ last.state # None =>
          /\ PenaltyOfBreaks(last.state[1])
          /\ \A s \in LastAdvanced :
                /\ Len(s.seq) = 1 => s.penalty = 0
                /\ Len(s.seq) = Len(last.state[1].seq) =>
                      /\ s.penalty = last.state[1].penalty
                      /\ s.seq[Len(s.seq)].ttype = TOKEN_PARTIAL
                /\ Len(s.seq) > Len(last.state[1].seq) /\ Len(s.seq) > 1 =>
                      s.penalty = last.state[1].penalty
                                  + word_break_penalty(query, end_pos(last.state[1]))

\* advance has extended the PARTIAL segment that ends a sequence of two
\* or more segments with a positive penalty, across a break node that has
\* a penalty of its own.
C40_Witness ==
    /\ last.state # None
    /\ word_break_penalty(query, 0) > 0
    /\ word_break_penalty(query, end_pos(last.state[1])) > 0
    /\ \E s \in LastAdvanced :
          /\ Len(s.seq) >= 2
          /\ Len(s.seq) = Len(last.state[1].seq)
          /\ s.penalty > 0

====
